---------------------------- MODULE Spec2Model ----------------------------
(***************************************************************************)
(* Web region and audience analyzer: the signal-fusion scoring engine      *)
(* (compute_result) and the recommendation rule engine                     *)
(* (generate_recommendations) of scripts/analyzer.                         *)
(*                                                                         *)
(* Numbers.  Weights and scores are kept in thousandths (1.0 = 1000), the  *)
(* detector confidence and regionConfidence in hundredths (0.99 = 99), so  *)
(* that 0.6 * confidence is the integer 6 * c thousandths.                 *)
(*                                                                         *)
(* Python values.  A dict entry is Absent (no such key), Null (None) or    *)
(* Val(v).  Python strings are TLA+ strings, lists are sequences.  A call  *)
(* that raises returns a record whose raised field is TRUE.                *)
(***************************************************************************)
EXTENDS Integers, Sequences, FiniteSets, TLC

VARIABLES
    evidence,   \* the Evidence dict handed to the engine for one page
    result,     \* what compute_result returned for it (NoValue before the call)
    report,     \* what generate_recommendations returned (NoValue before the call)
    pc,         \* position in the pipeline (core.analyze, core.analyze_site)
    tally,      \* the severity counts of a recommendation list and their summary
    page_results,       \* the page outputs analyze_site has collected so far
    site_result,        \* what aggregate_site_results returned for them
    site_optimization,  \* what aggregate_site_optimization returned for them
    crawl       \* the crawler's parameters, queue, visited set and fetched pages

vars ==
    <<evidence, result, report, pc, tally, page_results, site_result, site_optimization,
      crawl>>

\* the variables of the single-page pipeline, of the summary and of the site run
page_vars == <<evidence, result, report>>
site_vars == <<page_results, site_result, site_optimization>>

----------------------------------------------------------------------------
(* Python values *)

Absent == [tag |-> "absent"]
Null == [tag |-> "null"]
Val(v) == [tag |-> "val", v |-> v]
NoValue == [tag |-> "novalue"]

IsVal(x) == x.tag = "val"

\* dict.get(key, default): the default only when the key is missing
Get(entry, default) == IF entry.tag = "absent" THEN default ELSE entry

\* key in dict
HasKey(entry) == entry.tag # "absent"

\* truthiness of an optional string or list: None, "" and [] are falsy
Truthy(x) == IsVal(x) /\ Len(x.v) > 0

----------------------------------------------------------------------------
(* Python string operations *)

UpperAlpha == "ABCDEFGHIJKLMNOPQRSTUVWXYZ"
LowerAlpha == "abcdefghijklmnopqrstuvwxyz"
Whitespace == {" ", "\t", "\n"}

CharAt(s, i) == SubSeq(s, i, i)

\* the character of `to` at the place c has in `from`, c itself when it has none
CharMap(from, to) == [i \in 1..Len(from) |-> <<CharAt(from, i), CharAt(to, i)>>]
ToLower == CharMap(UpperAlpha, LowerAlpha)
ToUpper == CharMap(LowerAlpha, UpperAlpha)

MapChar(c, table) ==
    IF \E i \in 1..Len(table) : table[i][1] = c
    THEN table[CHOOSE i \in 1..Len(table) : table[i][1] = c][2]
    ELSE c

RECURSIVE MapFrom(_, _, _)
MapFrom(s, i, table) ==
    IF i > Len(s) THEN ""
    ELSE MapChar(CharAt(s, i), table) \o MapFrom(s, i + 1, table)

\* str.lower()
Lower(s) == MapFrom(s, 1, ToLower)

\* str.upper()
Upper(s) == MapFrom(s, 1, ToUpper)

RECURSIVE LStrip(_)
LStrip(s) ==
    IF Len(s) > 0 /\ CharAt(s, 1) \in Whitespace
    THEN LStrip(SubSeq(s, 2, Len(s))) ELSE s

RECURSIVE RStrip(_)
RStrip(s) ==
    IF Len(s) > 0 /\ CharAt(s, Len(s)) \in Whitespace
    THEN RStrip(SubSeq(s, 1, Len(s) - 1)) ELSE s

\* str.strip()
Strip(s) == RStrip(LStrip(s))

RECURSIVE SplitFrom(_, _, _, _)
SplitFrom(s, seps, i, cur) ==
    IF i > Len(s) THEN <<cur>>
    ELSE IF CharAt(s, i) \in seps
         THEN <<cur>> \o SplitFrom(s, seps, i + 1, "")
         ELSE SplitFrom(s, seps, i + 1, cur \o CharAt(s, i))

\* str.split(sep) for a one-character sep; re.split(r'[-_]', s) for two
Split(s, seps) == SplitFrom(s, seps, 1, "")

\* needle in hay (substring test)
Contains(hay, needle) ==
    \E i \in 1..(Len(hay) - Len(needle) + 1) :
        SubSeq(hay, i, i + Len(needle) - 1) = needle

\* s.split('-')[0].split('_')[0]
BaseLang(s) == Split(Split(s, {"-"})[1], {"_"})[1]

----------------------------------------------------------------------------
(* constants.py and the tables of recommendations.py *)

TLD_MAP ==
    (".cn" :> "CN") @@ (".de" :> "DE") @@ (".jp" :> "JP") @@ (".uk" :> "GB") @@
    (".fr" :> "FR") @@ (".ru" :> "RU") @@ (".br" :> "BR") @@ (".in" :> "IN") @@
    (".kr" :> "KR") @@ (".au" :> "AU") @@ (".ca" :> "CA") @@ (".it" :> "IT") @@
    (".es" :> "ES") @@ (".nl" :> "NL") @@ (".se" :> "SE") @@ (".no" :> "NO") @@
    (".dk" :> "DK") @@ (".fi" :> "FI") @@ (".pl" :> "PL") @@ (".tr" :> "TR") @@
    (".id" :> "ID") @@ (".vn" :> "VN") @@ (".th" :> "TH") @@ (".my" :> "MY") @@
    (".sg" :> "SG") @@ (".ph" :> "PH") @@ (".mx" :> "MX") @@ (".ar" :> "AR") @@
    (".cl" :> "CL") @@ (".co" :> "CO") @@ (".za" :> "ZA") @@ (".eg" :> "EG") @@
    (".sa" :> "SA") @@ (".ae" :> "AE") @@ (".il" :> "IL") @@ (".nz" :> "NZ") @@
    (".ie" :> "IE") @@ (".ch" :> "CH") @@ (".at" :> "AT") @@ (".be" :> "BE") @@
    (".pt" :> "PT") @@ (".gr" :> "GR") @@ (".cz" :> "CZ") @@ (".hu" :> "HU") @@
    (".ro" :> "RO") @@ (".ua" :> "UA") @@ (".tw" :> "TW") @@ (".hk" :> "HK")

LANG_TO_REGION ==
    << <<"zh", "CN">>, <<"ja", "JP">>, <<"ko", "KR">>, <<"de", "DE">>, <<"fr", "FR">>,
       <<"ru", "RU">>, <<"pt", "BR">>, <<"it", "IT">>, <<"es", "ES">>, <<"nl", "NL">>,
       <<"pl", "PL">>, <<"tr", "TR">>, <<"vi", "VN">>, <<"th", "TH">>, <<"id", "ID">>,
       <<"ms", "MY">>, <<"tl", "PH">>, <<"ar", "SA">>, <<"he", "IL">>, <<"hi", "IN">>,
       <<"bn", "BD">>, <<"uk", "UA">>, <<"cs", "CZ">>, <<"hu", "HU">>, <<"ro", "RO">>,
       <<"el", "GR">>, <<"sv", "SE">>, <<"no", "NO">>, <<"da", "DK">>, <<"fi", "FI">>,
       <<"fa", "IR">>, <<"sw", "KE">> >>

COUNTRY_NAMES ==
    ("CN" :> "China") @@ ("US" :> "United States") @@ ("DE" :> "Germany") @@
    ("JP" :> "Japan") @@ ("GB" :> "United Kingdom") @@ ("FR" :> "France") @@
    ("RU" :> "Russia") @@ ("BR" :> "Brazil") @@ ("IN" :> "India") @@
    ("KR" :> "South Korea") @@ ("AU" :> "Australia") @@ ("CA" :> "Canada") @@
    ("IT" :> "Italy") @@ ("ES" :> "Spain") @@ ("NL" :> "Netherlands") @@
    ("SE" :> "Sweden") @@ ("NO" :> "Norway") @@ ("DK" :> "Denmark") @@
    ("FI" :> "Finland") @@ ("PL" :> "Poland") @@ ("TR" :> "Turkey") @@
    ("ID" :> "Indonesia") @@ ("VN" :> "Vietnam") @@ ("TH" :> "Thailand") @@
    ("MY" :> "Malaysia") @@ ("SG" :> "Singapore") @@ ("PH" :> "Philippines") @@
    ("MX" :> "Mexico") @@ ("AR" :> "Argentina") @@ ("CL" :> "Chile") @@
    ("CO" :> "Colombia") @@ ("ZA" :> "South Africa") @@ ("EG" :> "Egypt") @@
    ("SA" :> "Saudi Arabia") @@ ("AE" :> "UAE") @@ ("IL" :> "Israel") @@
    ("NZ" :> "New Zealand") @@ ("IE" :> "Ireland") @@ ("CH" :> "Switzerland") @@
    ("AT" :> "Austria") @@ ("BE" :> "Belgium") @@ ("PT" :> "Portugal") @@
    ("GR" :> "Greece") @@ ("CZ" :> "Czech Republic") @@ ("HU" :> "Hungary") @@
    ("RO" :> "Romania") @@ ("UA" :> "Ukraine") @@ ("TW" :> "Taiwan") @@
    ("HK" :> "Hong Kong") @@ ("BD" :> "Bangladesh") @@ ("IR" :> "Iran") @@
    ("KE" :> "Kenya") @@ ("EU" :> "European Union")

LANG_NAMES ==
    ("en" :> "English") @@ ("zh" :> "Chinese") @@ ("zh-cn" :> "Simplified Chinese") @@
    ("zh-tw" :> "Traditional Chinese") @@ ("ja" :> "Japanese") @@ ("ko" :> "Korean") @@
    ("de" :> "German") @@ ("fr" :> "French") @@ ("es" :> "Spanish") @@
    ("pt" :> "Portuguese") @@ ("ru" :> "Russian") @@ ("ar" :> "Arabic") @@
    ("hi" :> "Hindi") @@ ("it" :> "Italian") @@ ("nl" :> "Dutch") @@
    ("pl" :> "Polish") @@ ("tr" :> "Turkish") @@ ("vi" :> "Vietnamese") @@
    ("th" :> "Thai") @@ ("id" :> "Indonesian") @@ ("ms" :> "Malay") @@
    ("sv" :> "Swedish") @@ ("no" :> "Norwegian") @@ ("da" :> "Danish") @@
    ("fi" :> "Finnish") @@ ("he" :> "Hebrew") @@ ("uk" :> "Ukrainian") @@
    ("cs" :> "Czech") @@ ("hu" :> "Hungarian") @@ ("ro" :> "Romanian") @@
    ("el" :> "Greek") @@ ("fa" :> "Persian") @@ ("bn" :> "Bengali") @@
    ("tl" :> "Filipino")

CURRENCY_MAP ==
    ("USD" :> "US") @@ ("EUR" :> "EU") @@ ("CNY" :> "CN") @@ ("RMB" :> "CN") @@
    ("GBP" :> "GB") @@ ("JPY" :> "JP") @@ ("INR" :> "IN") @@ ("RUB" :> "RU") @@
    ("BRL" :> "BR") @@ ("KRW" :> "KR") @@ ("AUD" :> "AU") @@ ("CAD" :> "CA") @@
    ("CHF" :> "CH") @@ ("HKD" :> "HK") @@ ("SGD" :> "SG") @@ ("SEK" :> "SE") @@
    ("NOK" :> "NO") @@ ("DKK" :> "DK") @@ ("PLN" :> "PL") @@ ("TRY" :> "TR") @@
    ("THB" :> "TH") @@ ("IDR" :> "ID") @@ ("MYR" :> "MY") @@ ("PHP" :> "PH") @@
    ("VND" :> "VN") @@ ("MXN" :> "MX") @@ ("ZAR" :> "ZA") @@ ("ILS" :> "IL") @@
    ("SAR" :> "SA") @@ ("AED" :> "AE")

PAYMENT_METHODS ==
    ("NL" :> <<"iDEAL">>) @@ ("DE" :> <<"Sofort", "Giropay", "Klarna", "SEPA", "Rechnung">>) @@ ("AT" :> <<"EPS">>) @@
    ("PL" :> <<"BLIK", "Przelewy24">>) @@ ("BR" :> <<"Pix", "Boleto">>) @@ ("BE" :> <<"Bancontact">>) @@
    ("CN" :> <<"Alipay", "WeChat Pay", "UnionPay">>) @@ ("JP" :> <<"Konbini", "JCB", "PayPay">>) @@ ("RU" :> <<"Mir", "Yandex">>) @@
    ("IN" :> <<"UPI", "RuPay", "Paytm">>) @@ ("SE" :> <<"Swish">>) @@ ("CH" :> <<"TWINT">>)

REGION_CURRENCY ==
    ("US" :> <<"USD">>) @@ ("GB" :> <<"GBP">>) @@ ("EU" :> <<"EUR">>) @@ ("DE" :> <<"EUR">>) @@
    ("FR" :> <<"EUR">>) @@ ("IT" :> <<"EUR">>) @@ ("ES" :> <<"EUR">>) @@ ("NL" :> <<"EUR">>) @@
    ("BE" :> <<"EUR">>) @@ ("AT" :> <<"EUR">>) @@ ("PT" :> <<"EUR">>) @@ ("GR" :> <<"EUR">>) @@
    ("FI" :> <<"EUR">>) @@ ("IE" :> <<"EUR">>) @@ ("JP" :> <<"JPY">>) @@ ("CN" :> <<"CNY", "RMB">>) @@
    ("KR" :> <<"KRW">>) @@ ("IN" :> <<"INR">>) @@ ("BR" :> <<"BRL">>) @@ ("RU" :> <<"RUB">>) @@
    ("AU" :> <<"AUD">>) @@ ("CA" :> <<"CAD">>) @@ ("MX" :> <<"MXN">>) @@ ("TH" :> <<"THB">>) @@
    ("VN" :> <<"VND">>) @@ ("ID" :> <<"IDR">>) @@ ("MY" :> <<"MYR">>) @@ ("PH" :> <<"PHP">>) @@
    ("SG" :> <<"SGD">>) @@ ("HK" :> <<"HKD">>) @@ ("SE" :> <<"SEK">>) @@ ("NO" :> <<"NOK">>) @@
    ("DK" :> <<"DKK">>) @@ ("PL" :> <<"PLN">>) @@ ("TR" :> <<"TRY">>) @@ ("CH" :> <<"CHF">>) @@
    ("ZA" :> <<"ZAR">>) @@ ("SA" :> <<"SAR">>) @@ ("AE" :> <<"AED">>) @@ ("IL" :> <<"ILS">>) @@
    ("TW" :> <<"TWD">>)

REGION_SOCIAL ==
    ("CN" :> <<"weixin.qq.com", "weibo.com", "douyin.com">>) @@ ("RU" :> <<"vk.com", "ok.ru">>) @@
    ("JP" :> <<"line.me">>) @@ ("KR" :> <<"kakaotalk.com", "naver.com">>)

MAJOR_MARKETS ==
    <<"en", "zh", "ja", "ko", "de", "fr", "es", "pt", "ru", "ar">>

\* the languages of the bare-code table, and its lookup
LangInTable(lc) == \E i \in 1..Len(LANG_TO_REGION) : LANG_TO_REGION[i][1] = lc
LangRegion(lc) ==
    LANG_TO_REGION[CHOOSE i \in 1..Len(LANG_TO_REGION) : LANG_TO_REGION[i][1] = lc][2]

\* dict.get(key, key) on a name table
NameOf(table, code) == IF code \in DOMAIN table THEN table[code] ELSE code

----------------------------------------------------------------------------
(* list.sort / sorted: a stable sort by an integer key *)

\* the indices of keys in ascending key order, equal keys in index order
RECURSIVE StableOrder(_, _)
StableOrder(keys, left) ==
    IF left = {} THEN <<>>
    ELSE LET m == CHOOSE i \in left :
                    \A j \in left : keys[i] < keys[j] \/ (keys[i] = keys[j] /\ i <= j)
         IN <<m>> \o StableOrder(keys, left \ {m})

SortedBy(items, keys) ==
    LET order == StableOrder(keys, 1..Len(items))
    IN [i \in 1..Len(items) |-> items[order[i]]]

----------------------------------------------------------------------------
(* scoring.py: compute_result *)

W_TLD == 1000
W_LANG_REGION == 900
W_LANG_BARE == 700
W_LOCALE_REGION == 800
W_LOCALE_BARE == 500
W_CONTENT_REGION == 700
W_CONTENT_BARE == 500
W_DETECT == 600
DETECT_PER_HUNDREDTH == 6
DETECT_CUTOFF == 50
W_IP == 400
W_IP_CDN == 200
W_CURRENCY == 300
W_PHONE == 300
W_SOCIAL == 300

SCORING_CDNS ==
    <<"cloudflare", "akamai", "fastly", "cloudfront", "twitter",
      "edgecast", "stackpath", "incapsula", "sucuri">>

\* the dicts that evidence.get(section, {}) defaults to
EmptyHtml ==
    [tld |-> Absent, lang |-> Absent, metaLocale |-> Absent, metaLanguage |-> Absent,
     charset |-> Absent, hreflangTags |-> Absent]
EmptyContent ==
    [currencyCodes |-> Absent, currencySymbols |-> Absent, phoneFormats |-> Absent,
     socialMediaSignals |-> Absent, paymentMethods |-> Absent,
     spellingCounts |-> Absent, unitCounts |-> Absent, uxSignals |-> Absent]
EmptyIpGeo == [countryCode |-> Absent, isp |-> Absent, org |-> Absent, error |-> Absent]
EmptyLangDet == [results |-> Absent, error |-> Absent]

\* scores = {}; max_weight = 0.0; primary_lang = None; lang_confidence = 0.0
InitialAcc ==
    [scores |-> <<>>, max_weight |-> 0, primary_lang |-> Null,
     lang_confidence |-> Val(0), raised |-> FALSE]

Raise(acc) == [acc EXCEPT !.raised = TRUE]

\* max_weight += weight
AddMax(acc, weight) == [acc EXCEPT !.max_weight = @ + weight]

\* a variant that assigns the weight instead of adding it: scores[region] = weight
Bump_assign(scores, region, weight) ==
    IF \E i \in 1..Len(scores) : scores[i].region = region
    THEN [i \in 1..Len(scores) |->
            IF scores[i].region = region
            THEN [scores[i] EXCEPT !.score = weight] ELSE scores[i]]
    ELSE Append(scores, [region |-> region, score |-> weight])

\* scores[region] = scores.get(region, 0) + weight, keeping insertion order
Bump(scores, region, weight) ==
    IF \E i \in 1..Len(scores) : scores[i].region = region
    THEN [i \in 1..Len(scores) |->
            IF scores[i].region = region
            THEN [scores[i] EXCEPT !.score = @ + weight] ELSE scores[i]]
    ELSE Append(scores, [region |-> region, score |-> weight])

add_score(acc, region, weight) ==
    IF Truthy(region)
    THEN [acc EXCEPT !.scores = Bump(@, region.v, weight),
                     !.max_weight = @ + weight]
    ELSE acc

\* a variant that files a TLD outside TLD_MAP (a gTLD) under the United States
TldStep_generic_us(acc, html_s) ==
    IF acc.raised THEN acc
    ELSE IF ~IsVal(html_s) THEN Raise(acc)
    ELSE LET tld == Get(html_s.v.tld, Null) IN
         IF Truthy(tld)
         THEN add_score(acc, Val(IF tld.v \in DOMAIN TLD_MAP THEN TLD_MAP[tld.v] ELSE "US"),
                        W_TLD)
         ELSE AddMax(acc, W_TLD)

TldStep(acc, html_s) ==
    IF acc.raised THEN acc
    ELSE IF ~IsVal(html_s) THEN Raise(acc)
    ELSE LET tld == Get(html_s.v.tld, Null) IN
         IF Truthy(tld) /\ tld.v \in DOMAIN TLD_MAP
         THEN add_score(acc, Val(TLD_MAP[tld.v]), W_TLD)
         ELSE AddMax(acc, W_TLD)

\* a variant that always keeps the bare language code of the html lang
LangStep_bare_language(acc, html_s) ==
    IF acc.raised THEN acc
    ELSE LET lang == Get(html_s.v.lang, Null) IN
         IF Truthy(lang)
         THEN LET lang_lower == Strip(Lower(lang.v))
                  parts == Split(lang_lower, {"-", "_"})
                  lang_code == parts[1]
              IN IF Len(parts) >= 2
                 THEN [add_score(acc, Val(Upper(parts[2])), W_LANG_REGION)
                         EXCEPT !.primary_lang = Val(lang_code)]
                 ELSE IF LangInTable(lang_code)
                 THEN [add_score(acc, Val(LangRegion(lang_code)), W_LANG_BARE)
                         EXCEPT !.primary_lang = Val(lang_code)]
                 ELSE [AddMax(acc, W_LANG_BARE) EXCEPT !.primary_lang = Val(lang_code)]
         ELSE AddMax(acc, W_LANG_REGION)

\* a variant that takes the upper-cased bare code itself as the region
LangStep_code_as_region(acc, html_s) ==
    IF acc.raised THEN acc
    ELSE LET lang == Get(html_s.v.lang, Null) IN
         IF Truthy(lang)
         THEN LET lang_lower == Strip(Lower(lang.v))
                  parts == Split(lang_lower, {"-", "_"})
                  lang_code == parts[1]
              IN IF Len(parts) >= 2
                 THEN [add_score(acc, Val(Upper(parts[2])), W_LANG_REGION)
                         EXCEPT !.primary_lang = Val(lang_lower)]
                 ELSE [add_score(acc, Val(Upper(lang_code)), W_LANG_BARE)
                         EXCEPT !.primary_lang = Val(lang_code)]
         ELSE AddMax(acc, W_LANG_REGION)

LangStep(acc, html_s) ==
    IF acc.raised THEN acc
    ELSE LET lang == Get(html_s.v.lang, Null) IN
         IF Truthy(lang)
         THEN LET lang_lower == Strip(Lower(lang.v))
                  parts == Split(lang_lower, {"-", "_"})
                  lang_code == parts[1]
              IN IF Len(parts) >= 2
                 THEN [add_score(acc, Val(Upper(parts[2])), W_LANG_REGION)
                         EXCEPT !.primary_lang = Val(lang_lower)]
                 ELSE IF LangInTable(lang_code)
                 THEN [add_score(acc, Val(LangRegion(lang_code)), W_LANG_BARE)
                         EXCEPT !.primary_lang = Val(lang_code)]
                 ELSE [AddMax(acc, W_LANG_BARE) EXCEPT !.primary_lang = Val(lang_code)]
         ELSE AddMax(acc, W_LANG_REGION)

LocaleStep(acc, html_s) ==
    IF acc.raised THEN acc
    ELSE LET locale == Get(html_s.v.metaLocale, Null) IN
         IF Truthy(locale)
         THEN LET parts == Split(locale.v, {"_"})
              IN IF Len(parts) >= 2
                 THEN add_score(acc, Val(Upper(parts[2])), W_LOCALE_REGION)
                 ELSE IF LangInTable(Lower(parts[1]))
                 THEN add_score(acc, Val(LangRegion(Lower(parts[1]))), W_LOCALE_BARE)
                 ELSE acc
         ELSE AddMax(acc, W_LOCALE_REGION)

ContentLangStep(acc, html_s) ==
    IF acc.raised THEN acc
    ELSE LET content_lang == Get(html_s.v.metaLanguage, Null) IN
         IF Truthy(content_lang)
         THEN LET cl_parts == Split(Strip(Lower(content_lang.v)), {"-", "_"})
              IN IF Len(cl_parts) >= 2
                 THEN add_score(acc, Val(Upper(cl_parts[2])), W_CONTENT_REGION)
                 ELSE IF LangInTable(cl_parts[1])
                 THEN add_score(acc, Val(LangRegion(cl_parts[1])), W_CONTENT_BARE)
                 ELSE acc
         ELSE AddMax(acc, W_CONTENT_REGION)

\* a variant whose cutoff is inclusive: detected_conf >= 0.5
DetectStep_inclusive(acc, lang_det) ==
    IF acc.raised THEN acc
    ELSE IF ~IsVal(lang_det) THEN Raise(acc)
    ELSE IF HasKey(lang_det.v.results) /\ Truthy(lang_det.v.results)
    THEN LET top == lang_det.v.results.v[1]
             detected_conf == Get(top.confidence, Val(0))
         IN IF ~HasKey(top.lang) THEN Raise(acc)
            ELSE LET detected_lang == top.lang
                     seen == [acc EXCEPT
                                !.primary_lang =
                                    IF Truthy(@) THEN @ ELSE detected_lang,
                                !.lang_confidence = detected_conf]
                 IN IF IsVal(detected_lang) /\ LangInTable(detected_lang.v)
                    THEN IF ~IsVal(detected_conf) THEN Raise(acc)
                         ELSE IF detected_conf.v >= DETECT_CUTOFF
                         THEN add_score(seen, Val(LangRegion(detected_lang.v)),
                                        DETECT_PER_HUNDREDTH * detected_conf.v)
                         ELSE AddMax(seen, W_DETECT)
                    ELSE AddMax(seen, W_DETECT)
    ELSE AddMax(acc, W_DETECT)

DetectStep(acc, lang_det) ==
    IF acc.raised THEN acc
    ELSE IF ~IsVal(lang_det) THEN Raise(acc)
    ELSE IF HasKey(lang_det.v.results) /\ Truthy(lang_det.v.results)
    THEN LET top == lang_det.v.results.v[1]
             detected_conf == Get(top.confidence, Val(0))
         IN IF ~HasKey(top.lang) THEN Raise(acc)
            ELSE LET detected_lang == top.lang
                     seen == [acc EXCEPT
                                !.primary_lang =
                                    IF Truthy(@) THEN @ ELSE detected_lang,
                                !.lang_confidence = detected_conf]
                 IN IF IsVal(detected_lang) /\ LangInTable(detected_lang.v)
                    THEN IF ~IsVal(detected_conf) THEN Raise(acc)
                         ELSE IF detected_conf.v > DETECT_CUTOFF
                         THEN add_score(seen, Val(LangRegion(detected_lang.v)),
                                        DETECT_PER_HUNDREDTH * detected_conf.v)
                         ELSE AddMax(seen, W_DETECT)
                    ELSE AddMax(seen, W_DETECT)
    ELSE AddMax(acc, W_DETECT)

\* any(cdn in isp for cdn in names)
AnyCdn(isp, names) == \E i \in 1..Len(names) : Contains(isp, names[i])

IpStep(acc, ip_geo) ==
    IF acc.raised THEN acc
    ELSE IF ~IsVal(ip_geo) THEN Raise(acc)
    ELSE IF HasKey(ip_geo.v.countryCode)
    THEN LET isp_part == Get(ip_geo.v.isp, Val(""))
             org_part == Get(ip_geo.v.org, Val(""))
         IN IF ~IsVal(isp_part) \/ ~IsVal(org_part) THEN Raise(acc)
            ELSE LET isp == Lower(isp_part.v \o " " \o org_part.v)
                     is_cdn == AnyCdn(isp, SCORING_CDNS)
                     ip_weight == IF is_cdn THEN W_IP_CDN ELSE W_IP
                 IN add_score(acc, ip_geo.v.countryCode, ip_weight)
    ELSE AddMax(acc, W_IP)

RECURSIVE CurrencyLoop(_, _, _)
CurrencyLoop(acc, codes, i) ==
    IF i > Len(codes) THEN acc
    ELSE CurrencyLoop(
            IF codes[i] \in DOMAIN CURRENCY_MAP
            THEN add_score(acc, Val(CURRENCY_MAP[codes[i]]), W_CURRENCY)
            ELSE acc,
            codes, i + 1)

CurrencyStep(acc, content_s) ==
    IF acc.raised THEN acc
    ELSE IF ~IsVal(content_s) THEN Raise(acc)
    ELSE LET codes == Get(content_s.v.currencyCodes, Val(<<>>)) IN
         IF ~IsVal(codes) THEN Raise(acc) ELSE CurrencyLoop(acc, codes.v, 1)

RECURSIVE PhoneLoop(_, _, _)
PhoneLoop(acc, countries, i) ==
    IF i > Len(countries) THEN acc
    ELSE PhoneLoop(add_score(acc, Val(countries[i]), W_PHONE), countries, i + 1)

PhoneStep(acc, content_s) ==
    IF acc.raised THEN acc
    ELSE LET countries == Get(content_s.v.phoneFormats, Val(<<>>)) IN
         IF ~IsVal(countries) THEN Raise(acc) ELSE PhoneLoop(acc, countries.v, 1)

RECURSIVE SocialLoop(_, _, _)
SocialLoop(acc, sigs, i) ==
    IF acc.raised \/ i > Len(sigs) THEN acc
    ELSE LET region == Get(sigs[i].region, Val("")) IN
         SocialLoop(
            IF ~IsVal(region) THEN Raise(acc)
            ELSE IF ~Contains(region.v, "/")
            THEN add_score(acc, region, W_SOCIAL) ELSE acc,
            sigs, i + 1)

SocialStep(acc, content_s) ==
    IF acc.raised THEN acc
    ELSE LET sigs == Get(content_s.v.socialMediaSignals, Val(<<>>)) IN
         IF ~IsVal(sigs) THEN Raise(acc) ELSE SocialLoop(acc, sigs.v, 1)

\* the accumulator after the four declarations of htmlSignals
HtmlAcc(ev) ==
    LET html_s == Get(ev.htmlSignals, Val(EmptyHtml))
        a1 == TldStep(InitialAcc, html_s)
        a2 == LangStep(a1, html_s)
        a3 == LocaleStep(a2, html_s)
    IN ContentLangStep(a3, html_s)

\* ... after language detection
DetectAcc(ev) == DetectStep(HtmlAcc(ev), Get(ev.languageDetection, Val(EmptyLangDet)))

\* ... after IP geolocation
IpAcc(ev) == IpStep(DetectAcc(ev), Get(ev.ipGeolocation, Val(EmptyIpGeo)))

\* the accumulator after the nine sources, in the order of the function body
Accumulate(ev) ==
    LET content_s == Get(ev.contentSignals, Val(EmptyContent))
        a7 == CurrencyStep(IpAcc(ev), content_s)
        a8 == PhoneStep(a7, content_s)
    IN SocialStep(a8, content_s)

\* a variant that takes the last key holding the largest score
MaxRegion_last_maximum(scores) ==
    scores[CHOOSE i \in 1..Len(scores) :
              /\ \A j \in 1..Len(scores) : scores[j].score <= scores[i].score
              /\ \A j \in (i + 1)..Len(scores) : scores[j].score < scores[i].score].region

\* max(scores, key=lambda k: scores[k]): the first key holding the largest score
MaxRegion(scores) ==
    scores[CHOOSE i \in 1..Len(scores) :
              /\ \A j \in 1..Len(scores) : scores[j].score <= scores[i].score
              /\ \A j \in 1..(i - 1) : scores[j].score < scores[i].score].region

ScoreOf(scores, region) ==
    scores[CHOOSE i \in 1..Len(scores) : scores[i].region = region].score

\* a variant that cuts the ratio off after 2 decimals instead of rounding it
RoundRatio_truncated(num, den) == (num * 100) \div den

\* round(x, 2) of the ratio num/den, in hundredths, ties to the even hundredth
RoundRatio(num, den) ==
    LET q == (num * 100) \div den
        r == (num * 100) % den
    IN IF 2 * r > den \/ (2 * r = den /\ q % 2 = 1) THEN q + 1 ELSE q

\* a variant that reports the raw score of the region, neither normalised nor capped
Confidence_raw(raw_conf, max_weight) == RoundRatio(raw_conf, 1000)

\* min(raw_conf / max_weight, 1.0) rounded to 2 decimals
Confidence(raw_conf, max_weight) ==
    IF max_weight > 0
    THEN IF raw_conf >= max_weight THEN 100 ELSE RoundRatio(raw_conf, max_weight)
    ELSE IF raw_conf >= 1000 THEN 100 ELSE RoundRatio(raw_conf, 1000)

\* the first language of the bare-code table that maps to the region
ReverseLang(region) ==
    IF \E i \in 1..Len(LANG_TO_REGION) : LANG_TO_REGION[i][2] = region
    THEN Val(LANG_TO_REGION[
            CHOOSE i \in 1..Len(LANG_TO_REGION) :
                /\ LANG_TO_REGION[i][2] = region
                /\ \A j \in 1..(i - 1) : LANG_TO_REGION[j][2] # region][1])
    ELSE Null

\* sorted(scores.items(), key=lambda x: -x[1])
Breakdown(scores) == SortedBy(scores, [i \in 1..Len(scores) |-> 0 - scores[i].score])

RaisedResult == [raised |-> TRUE]

Finish(acc) ==
    IF acc.raised THEN RaisedResult
    ELSE LET scores == acc.scores
             primary_region == IF Len(scores) > 0 THEN Val(MaxRegion(scores)) ELSE Null
             confidence ==
                 IF Len(scores) > 0
                 THEN Confidence(ScoreOf(scores, primary_region.v), acc.max_weight)
                 ELSE 0
             primary_lang ==
                 IF ~Truthy(acc.primary_lang) /\ Truthy(primary_region)
                 THEN LET found == ReverseLang(primary_region.v)
                      IN IF IsVal(found) THEN found ELSE acc.primary_lang
                 ELSE acc.primary_lang
             country_name ==
                 IF Truthy(primary_region)
                 THEN Val(NameOf(COUNTRY_NAMES, primary_region.v)) ELSE Null
             lang_name ==
                 IF Truthy(primary_lang)
                 THEN Val(NameOf(LANG_NAMES, primary_lang.v)) ELSE Null
             audience ==
                 IF Truthy(primary_region) /\ Truthy(primary_lang)
                 THEN lang_name.v \o "-speaking audience in " \o country_name.v
                 ELSE IF Truthy(primary_region)
                 THEN "Audience in " \o country_name.v
                 ELSE "Unknown"
         IN [raised |-> FALSE,
             primaryRegion |-> primary_region,
             primaryRegionName |-> country_name,
             primaryLanguage |-> primary_lang,
             primaryLanguageName |-> lang_name,
             likelyAudience |-> audience,
             regionConfidence |-> confidence,
             languageConfidence |->
                 IF IsVal(acc.lang_confidence) /\ acc.lang_confidence.v # 0
                 THEN acc.lang_confidence ELSE Null,
             signalBreakdown |-> Breakdown(scores)]

compute_result(ev) == Finish(Accumulate(ev))

----------------------------------------------------------------------------
(* text helpers of the recommendation messages *)

\* sep.join(items)
RECURSIVE JoinFrom(_, _, _)
JoinFrom(items, sep, i) ==
    IF i > Len(items) THEN ""
    ELSE IF i = Len(items) THEN items[i]
    ELSE items[i] \o sep \o JoinFrom(items, sep, i + 1)

Join(items, sep) == JoinFrom(items, sep, 1)

\* repr() of a list of strings, as an f-string prints it
ListRepr(items) ==
    "[" \o Join([i \in 1..Len(items) |-> "'" \o items[i] \o "'"], ", ") \o "]"

\* the characters of the tags and codes, in code-point order
AsciiOrder == " -0123456789ABCDEFGHIJKLMNOPQRSTUVWXYZ_abcdefghijklmnopqrstuvwxyz"

CharRank(c) ==
    IF \E i \in 1..Len(AsciiOrder) : CharAt(AsciiOrder, i) = c
    THEN CHOOSE i \in 1..Len(AsciiOrder) : CharAt(AsciiOrder, i) = c
    ELSE Len(AsciiOrder) + 1

\* a < b for Python strings
RECURSIVE StrLessFrom(_, _, _)
StrLessFrom(a, b, i) ==
    IF i > Len(a) THEN i <= Len(b)
    ELSE IF i > Len(b) THEN FALSE
    ELSE IF CharAt(a, i) = CharAt(b, i) THEN StrLessFrom(a, b, i + 1)
    ELSE CharRank(CharAt(a, i)) < CharRank(CharAt(b, i))

StrLess(a, b) == StrLessFrom(a, b, 1)

\* sorted(set_of_strings)
RECURSIVE SortedStrings(_)
SortedStrings(S) ==
    IF S = {} THEN <<>>
    ELSE LET m == CHOOSE x \in S : \A y \in S \ {x} : StrLess(x, y)
         IN <<m>> \o SortedStrings(S \ {m})

\* str.replace(ch, '')
RECURSIVE RemoveChar(_, _)
RemoveChar(s, ch) ==
    IF Len(s) = 0 THEN ""
    ELSE (IF CharAt(s, 1) = ch THEN "" ELSE CharAt(s, 1))
         \o RemoveChar(SubSeq(s, 2, Len(s)), ch)

\* [f(x) for x in items if keep(x)] over the indices kept
RECURSIVE SelectIdx(_, _, _)
SelectIdx(items, keep, i) ==
    IF i > Len(items) THEN <<>>
    ELSE (IF keep[i] THEN <<items[i]>> ELSE <<>>) \o SelectIdx(items, keep, i + 1)

Elems(items) == {items[i] : i \in 1..Len(items)}

----------------------------------------------------------------------------
(* recommendations.py: generate_recommendations *)

REC_CDNS ==
    <<"cloudflare", "akamai", "fastly", "cloudfront", "edgecast",
      "stackpath", "incapsula", "sucuri", "google", "microsoft", "amazon">>

PENALTY_CRITICAL == 20
PENALTY_WARNING == 10
PENALTY_INFO == 2
FULL_SCORE == 100
GRADE_A == 80
GRADE_B == 60
GRADE_C == 40
GRADE_D == 20
MAX_MISSING_MAJOR == 7
MISMATCH_CUTOFF == 70
UNKNOWN_RANK == 9

Rec(severity, category, issue) ==
    [severity |-> severity, category |-> category, issue |-> issue]

\* recs = []
InitialRecs == [recs |-> <<>>, raised |-> FALSE]

\* recs.append(rec)
Emit(st, rec) == [st EXCEPT !.recs = Append(@, rec)]

Fail(st) == [st EXCEPT !.raised = TRUE]

\* a variant that looks for "x-default" in the tags as written, case-sensitively
HreflangRule_as_written(st, html_s, primary_lang) ==
    IF st.raised THEN st
    ELSE IF ~IsVal(html_s) THEN Fail(st)
    ELSE LET hreflangs == Get(html_s.v.hreflangTags, Val(<<>>)) IN
         IF ~Truthy(hreflangs)
         THEN Emit(st, Rec("critical", "hreflang",
                "No hreflang tags found. Search engines cannot identify alternate language/region versions of this page."))
         ELSE LET hreflang_lower == [i \in 1..Len(hreflangs.v) |-> Lower(hreflangs.v[i])]
                  s1 == IF "x-default" \notin Elems(hreflangs.v)
                        THEN Emit(st, Rec("critical", "hreflang",
                               "hreflang tags exist but \"x-default\" is missing. Users from unmatched regions will not be routed to a fallback page."))
                        ELSE st
              IN IF Truthy(primary_lang)
                 THEN LET primary_base == BaseLang(primary_lang.v)
                          has_self_ref ==
                              \E i \in 1..Len(hreflang_lower) :
                                  /\ hreflang_lower[i] # "x-default"
                                  /\ BaseLang(hreflang_lower[i]) = primary_base
                      IN IF ~has_self_ref
                         THEN Emit(s1, Rec("warning", "hreflang",
                                "Current page language \"" \o primary_lang.v
                                \o "\" does not have a matching self-referencing hreflang tag. Found hreflangs: "
                                \o ListRepr(hreflangs.v)))
                         ELSE s1
                 ELSE s1

\* 1. hreflang audit
HreflangRule(st, html_s, primary_lang) ==
    IF st.raised THEN st
    ELSE IF ~IsVal(html_s) THEN Fail(st)
    ELSE LET hreflangs == Get(html_s.v.hreflangTags, Val(<<>>)) IN
         IF ~Truthy(hreflangs)
         THEN Emit(st, Rec("critical", "hreflang",
                "No hreflang tags found. Search engines cannot identify alternate language/region versions of this page."))
         ELSE LET hreflang_lower == [i \in 1..Len(hreflangs.v) |-> Lower(hreflangs.v[i])]
                  s1 == IF "x-default" \notin Elems(hreflang_lower)
                        THEN Emit(st, Rec("critical", "hreflang",
                               "hreflang tags exist but \"x-default\" is missing. Users from unmatched regions will not be routed to a fallback page."))
                        ELSE st
              IN IF Truthy(primary_lang)
                 THEN LET primary_base == BaseLang(primary_lang.v)
                          has_self_ref ==
                              \E i \in 1..Len(hreflang_lower) :
                                  /\ hreflang_lower[i] # "x-default"
                                  /\ BaseLang(hreflang_lower[i]) = primary_base
                      IN IF ~has_self_ref
                         THEN Emit(s1, Rec("warning", "hreflang",
                                "Current page language \"" \o primary_lang.v
                                \o "\" does not have a matching self-referencing hreflang tag. Found hreflangs: "
                                \o ListRepr(hreflangs.v)))
                         ELSE s1
                 ELSE s1

\* 2. missing locale declarations
LocaleDeclarationRule(st, html_s) ==
    IF st.raised THEN st
    ELSE LET lang_attr == Get(html_s.v.lang, Null)
             og_locale == Get(html_s.v.metaLocale, Null)
             content_language == Get(html_s.v.metaLanguage, Null)
             s1 == IF ~Truthy(lang_attr)
                   THEN Emit(st, Rec("critical", "locale-declaration",
                          "Missing <html lang=\"...\"> attribute. Browsers and screen readers cannot determine the page language."))
                   ELSE st
             s2 == IF ~Truthy(og_locale)
                   THEN Emit(s1, Rec("warning", "locale-declaration",
                          "Missing og:locale meta tag. Social media platforms cannot determine content locale for sharing."))
                   ELSE s1
         IN IF ~Truthy(content_language)
            THEN Emit(s2, Rec("info", "locale-declaration",
                   "No content-language meta tag found. While less critical than <html lang>, it provides an additional signal."))
            ELSE s2

\* 3. locale signal consistency: the declarations against each other
DeclaredLangs(html_s) ==
    LET lang_attr == Get(html_s.v.lang, Null)
        og_locale == Get(html_s.v.metaLocale, Null)
        content_language == Get(html_s.v.metaLanguage, Null)
    IN (IF Truthy(lang_attr)
        THEN <<[k |-> "html lang", v |-> BaseLang(Lower(lang_attr.v))]>> ELSE <<>>)
       \o (IF Truthy(og_locale)
           THEN <<[k |-> "og:locale",
                   v |-> Split(Split(Lower(og_locale.v), {"_"})[1], {"-"})[1]]>>
           ELSE <<>>)
       \o (IF Truthy(content_language)
           THEN <<[k |-> "content-language", v |-> BaseLang(Lower(content_language.v))]>>
           ELSE <<>>)

ConsistencyRule(st, html_s) ==
    IF st.raised THEN st
    ELSE LET declared_langs == DeclaredLangs(html_s)
             detail == Join([i \in 1..Len(declared_langs) |->
                                declared_langs[i].k \o "=\"" \o declared_langs[i].v \o "\""],
                            ", ")
         IN IF Cardinality({declared_langs[i].v : i \in 1..Len(declared_langs)}) > 1
            THEN Emit(st, Rec("critical", "locale-consistency",
                   "Conflicting language declarations detected: " \o detail
                   \o ". Search engines receive mixed signals."))
            ELSE st

\* a variant that warns from the scoring cutoff on
DetectedMismatchRule_scoring_cutoff(st, html_s, lang_det) ==
    IF st.raised THEN st
    ELSE IF ~IsVal(lang_det) THEN Fail(st)
    ELSE LET lang_attr == Get(html_s.v.lang, Null)
             results == Get(lang_det.v.results, Null)
         IN IF Truthy(results) /\ Truthy(lang_attr)
            THEN LET top == results.v[1]
                     declared_base == BaseLang(Lower(lang_attr.v))
                     detected_conf == Get(top.confidence, Val(0))
                 IN IF ~HasKey(top.lang) THEN Fail(st)
                    ELSE IF top.lang # Val(declared_base)
                    THEN IF ~IsVal(detected_conf) THEN Fail(st)
                         ELSE IF detected_conf.v > DETECT_CUTOFF
                         THEN Emit(st, Rec("warning", "locale-consistency",
                                "Declared language \"" \o lang_attr.v
                                \o "\" does not match detected content language \""
                                \o (IF IsVal(top.lang) THEN top.lang.v ELSE "None")
                                \o "\" (confidence: " \o ToString(detected_conf.v)
                                \o ".0%). The page content may be in a different language than declared."))
                         ELSE st
                    ELSE st
            ELSE st

\* 3b. detected language against the declared one
DetectedMismatchRule(st, html_s, lang_det) ==
    IF st.raised THEN st
    ELSE IF ~IsVal(lang_det) THEN Fail(st)
    ELSE LET lang_attr == Get(html_s.v.lang, Null)
             results == Get(lang_det.v.results, Null)
         IN IF Truthy(results) /\ Truthy(lang_attr)
            THEN LET top == results.v[1]
                     declared_base == BaseLang(Lower(lang_attr.v))
                     detected_conf == Get(top.confidence, Val(0))
                 IN IF ~HasKey(top.lang) THEN Fail(st)
                    ELSE IF top.lang # Val(declared_base)
                    THEN IF ~IsVal(detected_conf) THEN Fail(st)
                         ELSE IF detected_conf.v > MISMATCH_CUTOFF
                         THEN Emit(st, Rec("warning", "locale-consistency",
                                "Declared language \"" \o lang_attr.v
                                \o "\" does not match detected content language \""
                                \o (IF IsVal(top.lang) THEN top.lang.v ELSE "None")
                                \o "\" (confidence: " \o ToString(detected_conf.v)
                                \o ".0%). The page content may be in a different language than declared."))
                         ELSE st
                    ELSE st
            ELSE st

\* 4. TLD against the content language
TldMismatchRule(st, html_s, primary_lang) ==
    IF st.raised THEN st
    ELSE LET tld == Get(html_s.v.tld, Null) IN
         IF Truthy(tld) /\ tld.v \in DOMAIN TLD_MAP /\ Truthy(primary_lang)
         THEN LET tld_region == TLD_MAP[tld.v]
                  tld_langs == {LANG_TO_REGION[i][1] : i \in
                                   {j \in 1..Len(LANG_TO_REGION) :
                                       LANG_TO_REGION[j][2] = tld_region}}
                  lang_base == BaseLang(primary_lang.v)
                  sorted_langs == SortedStrings(tld_langs)
                  tld_lang_names ==
                      Join([i \in 1..Len(sorted_langs) |->
                               NameOf(LANG_NAMES, sorted_langs[i])], ", ")
              IN IF lang_base \notin tld_langs /\ lang_base # "en" /\ tld_langs # {}
                 THEN Emit(st, Rec("warning", "tld-content-mismatch",
                        "Country-code TLD \"" \o tld.v \o "\" suggests "
                        \o NameOf(COUNTRY_NAMES, tld_region)
                        \o ", but page content is primarily in "
                        \o NameOf(LANG_NAMES, lang_base)
                        \o ". Expected language(s) for this TLD: "
                        \o tld_lang_names \o "."))
                 ELSE st
         ELSE st

\* a variant that recognizes the CDNs of the scoring instead of the audit's own
HostingRule_scoring_cdns(st, ip_geo, primary_region) ==
    IF st.raised THEN st
    ELSE IF ~IsVal(ip_geo) THEN Fail(st)
    ELSE IF Truthy(Get(ip_geo.v.countryCode, Null)) /\ Truthy(primary_region)
    THEN LET server_region == ip_geo.v.countryCode.v
             server_country == NameOf(COUNTRY_NAMES, server_region)
             target_country == NameOf(COUNTRY_NAMES, primary_region.v)
             isp_part == Get(ip_geo.v.isp, Val(""))
             org_part == Get(ip_geo.v.org, Val(""))
         IN IF ~IsVal(isp_part) \/ ~IsVal(org_part) THEN Fail(st)
            ELSE LET isp_info == Lower(isp_part.v \o " " \o org_part.v)
                     is_cdn == AnyCdn(isp_info, SCORING_CDNS)
                     org_shown == Get(ip_geo.v.org, Val("unknown"))
                 IN IF server_region # primary_region.v /\ ~is_cdn
                    THEN Emit(st, Rec("warning", "hosting-alignment",
                           "Server is hosted in " \o server_country \o " ("
                           \o server_region \o ") but target audience is in "
                           \o target_country \o " (" \o primary_region.v
                           \o "). No CDN detected. This may cause higher latency for target users."))
                    ELSE IF is_cdn
                    THEN Emit(st, Rec("info", "hosting-alignment",
                           "CDN detected (" \o org_shown.v \o "). Server resolved to "
                           \o server_country
                           \o " but content is likely served from edge nodes globally."))
                    ELSE st
    ELSE st

\* 5. IP / hosting alignment
HostingRule(st, ip_geo, primary_region) ==
    IF st.raised THEN st
    ELSE IF ~IsVal(ip_geo) THEN Fail(st)
    ELSE IF Truthy(Get(ip_geo.v.countryCode, Null)) /\ Truthy(primary_region)
    THEN LET server_region == ip_geo.v.countryCode.v
             server_country == NameOf(COUNTRY_NAMES, server_region)
             target_country == NameOf(COUNTRY_NAMES, primary_region.v)
             isp_part == Get(ip_geo.v.isp, Val(""))
             org_part == Get(ip_geo.v.org, Val(""))
         IN IF ~IsVal(isp_part) \/ ~IsVal(org_part) THEN Fail(st)
            ELSE LET isp_info == Lower(isp_part.v \o " " \o org_part.v)
                     is_cdn == AnyCdn(isp_info, REC_CDNS)
                     org_shown == Get(ip_geo.v.org, Val("unknown"))
                 IN IF server_region # primary_region.v /\ ~is_cdn
                    THEN Emit(st, Rec("warning", "hosting-alignment",
                           "Server is hosted in " \o server_country \o " ("
                           \o server_region \o ") but target audience is in "
                           \o target_country \o " (" \o primary_region.v
                           \o "). No CDN detected. This may cause higher latency for target users."))
                    ELSE IF is_cdn
                    THEN Emit(st, Rec("info", "hosting-alignment",
                           "CDN detected (" \o org_shown.v \o "). Server resolved to "
                           \o server_country
                           \o " but content is likely served from edge nodes globally."))
                    ELSE st
    ELSE st

\* a variant that reports a missing charset as info instead of warning
CharsetRule_missing_is_info(st, html_s) ==
    IF st.raised THEN st
    ELSE LET charset == Get(html_s.v.charset, Null) IN
         IF ~Truthy(charset)
         THEN Emit(st, Rec("info", "charset",
                "No charset declaration found. Multilingual content (especially CJK, Arabic, Cyrillic) may render incorrectly."))
         ELSE IF RemoveChar(Lower(charset.v), "-") \notin {"utf8", "utf16"}
         THEN Emit(st, Rec("warning", "charset",
                "Charset is \"" \o charset.v
                \o "\" instead of UTF-8. Non-UTF-8 encodings cannot reliably represent all scripts needed for multilingual cross-border content."))
         ELSE st

\* 6. charset
CharsetRule(st, html_s) ==
    IF st.raised THEN st
    ELSE LET charset == Get(html_s.v.charset, Null) IN
         IF ~Truthy(charset)
         THEN Emit(st, Rec("warning", "charset",
                "No charset declaration found. Multilingual content (especially CJK, Arabic, Cyrillic) may render incorrectly."))
         ELSE IF RemoveChar(Lower(charset.v), "-") \notin {"utf8", "utf16"}
         THEN Emit(st, Rec("warning", "charset",
                "Charset is \"" \o charset.v
                \o "\" instead of UTF-8. Non-UTF-8 encodings cannot reliably represent all scripts needed for multilingual cross-border content."))
         ELSE st

\* 7. target market adaptation: the local currency
CurrencyRule(st, content_s, primary_region) ==
    IF st.raised THEN st
    ELSE IF Truthy(primary_region) /\ primary_region.v \in DOMAIN REGION_CURRENCY
    THEN IF ~IsVal(content_s) THEN Fail(st)
         ELSE LET expected_currencies == REGION_CURRENCY[primary_region.v]
                  found_codes == Get(content_s.v.currencyCodes, Val(<<>>))
                  found_symbols == Get(content_s.v.currencySymbols, Val(<<>>))
              IN IF ~IsVal(found_codes) \/ ~IsVal(found_symbols) THEN Fail(st)
                 ELSE LET all_found == found_codes.v \o found_symbols.v
                          has_local == \E i \in 1..Len(expected_currencies) :
                                          expected_currencies[i] \in Elems(all_found)
                      IN IF ~has_local /\ Len(found_codes.v) > 0
                         THEN Emit(st, Rec("warning", "market-adaptation",
                                "Page targets " \o NameOf(COUNTRY_NAMES, primary_region.v)
                                \o " but does not display local currency ("
                                \o Join(expected_currencies, ", ")
                                \o "). Found currencies: " \o Join(found_codes.v, ", ")
                                \o ". Users expect to see prices in their local currency."))
                         ELSE st
    ELSE st

\* 7b. target market adaptation: the regional social platforms
SocialRule(st, content_s, primary_region) ==
    IF st.raised THEN st
    ELSE IF Truthy(primary_region) /\ primary_region.v \in DOMAIN REGION_SOCIAL
    THEN IF ~IsVal(content_s) THEN Fail(st)
         ELSE LET expected_socials == REGION_SOCIAL[primary_region.v]
                  sigs == Get(content_s.v.socialMediaSignals, Val(<<>>))
              IN IF ~IsVal(sigs) THEN Fail(st)
                 ELSE LET found_social_domains ==
                              {Get(sigs.v[i].domain, Val("")) : i \in 1..Len(sigs.v)}
                          missing_socials ==
                              SelectIdx(expected_socials,
                                        [i \in 1..Len(expected_socials) |->
                                            Val(expected_socials[i]) \notin found_social_domains],
                                        1)
                      IN IF Len(missing_socials) > 0
                         THEN Emit(st, Rec("info", "market-adaptation",
                                "Page targets " \o NameOf(COUNTRY_NAMES, primary_region.v)
                                \o " but does not link to key regional social platforms: "
                                \o Join(missing_socials, ", ")
                                \o ". These platforms are dominant in the target market."))
                         ELSE st
    ELSE st

\* 9. cultural adaptation: the local payment methods
PaymentRule(st, content_s, primary_region) ==
    IF st.raised THEN st
    ELSE IF Truthy(primary_region) /\ primary_region.v \in DOMAIN PAYMENT_METHODS
    THEN IF ~IsVal(content_s) THEN Fail(st)
         ELSE LET expected_methods == PAYMENT_METHODS[primary_region.v]
                  methods == Get(content_s.v.paymentMethods, Val(<<>>))
              IN IF ~IsVal(methods) THEN Fail(st)
                 ELSE IF \E i \in 1..Len(methods.v) :
                            \/ ~HasKey(methods.v[i].region)
                            \/ /\ methods.v[i].region = primary_region
                               /\ ~HasKey(methods.v[i].method)
                 THEN Fail(st)
                 ELSE LET found_methods ==
                              SelectIdx(methods.v,
                                        [i \in 1..Len(methods.v) |->
                                            methods.v[i].region = primary_region], 1)
                      IN IF Len(found_methods) = 0
                         THEN Emit(st, Rec("info", "market-adaptation",
                                "Page targets " \o NameOf(COUNTRY_NAMES, primary_region.v)
                                \o " but does not mention popular local payment methods ("
                                \o Join(expected_methods, ", ")
                                \o "). Trust signals are crucial for conversion."))
                         ELSE st
    ELSE st

\* 9b. cultural adaptation: US against UK spelling
SpellingRule(st, content_s, primary_region) ==
    IF st.raised THEN st
    ELSE IF ~IsVal(content_s) THEN Fail(st)
    ELSE LET spelling_counts ==
                 Get(content_s.v.spellingCounts, Val([US |-> Val(0), UK |-> Val(0)]))
         IN IF ~IsVal(spelling_counts) THEN Fail(st)
            ELSE LET us_count == Get(spelling_counts.v.US, Val(0))
                     uk_count == Get(spelling_counts.v.UK, Val(0))
                     region == IF IsVal(primary_region) THEN primary_region.v ELSE ""
                     compared == region \in {"US", "PH", "GB", "AU", "NZ", "IE", "ZA"}
                 IN IF compared /\ (~IsVal(us_count) \/ ~IsVal(uk_count)) THEN Fail(st)
                    ELSE IF /\ region \in {"US", "PH"}
                            /\ uk_count.v > us_count.v /\ uk_count.v > 0
                    THEN Emit(st, Rec("info", "cultural-adaptation",
                           "Page targets " \o region
                           \o " but uses British spelling variants (e.g., colour, centre) more frequently than American ones."))
                    ELSE IF /\ region \in {"GB", "AU", "NZ", "IE", "ZA"}
                            /\ us_count.v > uk_count.v /\ us_count.v > 0
                    THEN Emit(st, Rec("info", "cultural-adaptation",
                           "Page targets " \o region
                           \o " but uses American spelling variants (e.g., color, center) more frequently than British ones."))
                    ELSE st

\* 9c. cultural adaptation: measurement units
UnitsRule(st, content_s, primary_region) ==
    IF st.raised THEN st
    ELSE LET unit_counts ==
                 Get(content_s.v.unitCounts, Val([Imperial |-> Val(0), Metric |-> Val(0)]))
         IN IF ~IsVal(unit_counts) THEN Fail(st)
            ELSE LET imp_count == Get(unit_counts.v.Imperial, Val(0))
                     met_count == Get(unit_counts.v.Metric, Val(0))
                     region == IF IsVal(primary_region) THEN primary_region.v ELSE ""
                     compared == region = "US"
                                 \/ (region \notin {"US", "LR", "MM"} /\ Truthy(primary_region))
                 IN IF compared /\ (~IsVal(imp_count) \/ ~IsVal(met_count)) THEN Fail(st)
                    ELSE IF /\ region = "US" /\ IsVal(primary_region)
                            /\ met_count.v > imp_count.v /\ met_count.v > 0
                    THEN Emit(st, Rec("info", "cultural-adaptation",
                           "Page targets US but uses Metric units (cm, kg) more frequently than Imperial units (inch, lbs)."))
                    ELSE IF /\ region \notin {"US", "LR", "MM"} /\ Truthy(primary_region)
                            /\ imp_count.v > met_count.v /\ imp_count.v > 0
                    THEN Emit(st, Rec("info", "cultural-adaptation",
                           "Page targets " \o NameOf(COUNTRY_NAMES, region)
                           \o " but uses Imperial units (inch, lbs) more frequently than Metric units."))
                    ELSE st

\* (inp.get(key) or default).lower()
InputField(entry, default) ==
    Lower(IF Truthy(entry) THEN entry.v ELSE default)

EmailMistyped(name, typ) == Contains(name, "email") /\ typ # "email"

PhoneMistyped(name, typ) ==
    /\ Contains(name, "phone") \/ Contains(name, "tel") \/ Contains(name, "mobile")
    /\ typ # "tel"

\* the input at position i is one the loop for the given type reports
Mistyped(inputs, i, expected) ==
    LET name == InputField(inputs[i].name, "")
        typ == InputField(inputs[i].type, "text")
    IN IF expected = "email" THEN EmailMistyped(name, typ) ELSE PhoneMistyped(name, typ)

\* the first input the loop reports, 0 when it reports none
FirstInput(inputs, expected) ==
    IF \E i \in 1..Len(inputs) : Mistyped(inputs, i, expected)
    THEN CHOOSE i \in 1..Len(inputs) :
            /\ Mistyped(inputs, i, expected)
            /\ \A j \in 1..(i - 1) : ~Mistyped(inputs, j, expected)
    ELSE 0

\* 10. UX and accessibility: viewport, input types, image alt text
UxRule(st, content_s) ==
    IF st.raised THEN st
    ELSE LET ux_s == Get(content_s.v.uxSignals,
                         Val([viewport |-> Absent, inputs |-> Absent, images |-> Absent]))
         IN IF ~IsVal(ux_s) THEN Fail(st)
            ELSE LET viewport == Get(ux_s.v.viewport, Null)
                     inputs == Get(ux_s.v.inputs, Val(<<>>))
                     images == Get(ux_s.v.images, Val(<<>>))
                     s1 == IF ~Truthy(viewport)
                           THEN Emit(st, Rec("critical", "ux-mobile",
                                  "No viewport meta tag found. The site will not render correctly on mobile devices."))
                           ELSE IF /\ ~Contains(viewport.v, "width=device-width")
                                   /\ ~Contains(viewport.v, "initial-scale=1")
                           THEN Emit(st, Rec("warning", "ux-mobile",
                                  "Viewport meta tag exists (\"" \o viewport.v
                                  \o "\") but may not be configured for responsive design."))
                           ELSE st
                 IN IF ~IsVal(inputs) THEN Fail(st)
                    ELSE LET e == FirstInput(inputs.v, "email")
                             p == FirstInput(inputs.v, "tel")
                             s2 == IF e > 0
                                   THEN Emit(s1, Rec("info", "ux-forms",
                                          "Input field \"" \o InputField(inputs.v[e].name, "")
                                          \o "\" uses type=\"" \o InputField(inputs.v[e].type, "text")
                                          \o "\" instead of type=\"email\"."))
                                   ELSE s1
                             s3 == IF p > 0
                                   THEN Emit(s2, Rec("info", "ux-forms",
                                          "Input field \"" \o InputField(inputs.v[p].name, "")
                                          \o "\" uses type=\"" \o InputField(inputs.v[p].type, "text")
                                          \o "\" instead of type=\"tel\"."))
                                   ELSE s2
                         IN IF Truthy(images)
                            THEN LET missing_alt ==
                                         Cardinality({i \in 1..Len(images.v) :
                                                         ~Truthy(images.v[i].alt)})
                                 IN IF missing_alt > 0 /\ 2 * missing_alt > Len(images.v)
                                    THEN Emit(s3, Rec("warning", "accessibility",
                                           ToString(missing_alt) \o "/" \o ToString(Len(images.v))
                                           \o " sampled images are missing \"alt\" text."))
                                    ELSE s3
                            ELSE s3

\* a variant that stays silent from seven uncovered major markets on
CoverageRule_below_seven(st, html_s) ==
    IF st.raised THEN st
    ELSE LET hreflangs == Get(html_s.v.hreflangTags, Val(<<>>)) IN
         IF Truthy(hreflangs) /\ Len(hreflangs.v) >= 2
         THEN LET hreflang_bases ==
                      {BaseLang(Lower(hreflangs.v[i])) : i \in
                          {j \in 1..Len(hreflangs.v) : Lower(hreflangs.v[j]) # "x-default"}}
                  sorted_bases == SortedStrings(hreflang_bases)
                  covered_names == [i \in 1..Len(sorted_bases) |->
                                       NameOf(LANG_NAMES, sorted_bases[i])]
                  missing_major ==
                      SelectIdx([i \in 1..Len(MAJOR_MARKETS) |->
                                    NameOf(LANG_NAMES, MAJOR_MARKETS[i])],
                                [i \in 1..Len(MAJOR_MARKETS) |->
                                    MAJOR_MARKETS[i] \notin hreflang_bases], 1)
              IN IF Len(missing_major) > 0 /\ Len(missing_major) < MAX_MISSING_MAJOR
                 THEN Emit(st, Rec("info", "market-coverage",
                        "Site covers " \o ToString(Cardinality(hreflang_bases))
                        \o " language(s) via hreflang (" \o Join(covered_names, ", ")
                        \o "). Major markets not covered: " \o Join(missing_major, ", ")
                        \o "."))
                 ELSE st
         ELSE st

\* 8. multi-market coverage
CoverageRule(st, html_s) ==
    IF st.raised THEN st
    ELSE LET hreflangs == Get(html_s.v.hreflangTags, Val(<<>>)) IN
         IF Truthy(hreflangs) /\ Len(hreflangs.v) >= 2
         THEN LET hreflang_bases ==
                      {BaseLang(Lower(hreflangs.v[i])) : i \in
                          {j \in 1..Len(hreflangs.v) : Lower(hreflangs.v[j]) # "x-default"}}
                  sorted_bases == SortedStrings(hreflang_bases)
                  covered_names == [i \in 1..Len(sorted_bases) |->
                                       NameOf(LANG_NAMES, sorted_bases[i])]
                  missing_major ==
                      SelectIdx([i \in 1..Len(MAJOR_MARKETS) |->
                                    NameOf(LANG_NAMES, MAJOR_MARKETS[i])],
                                [i \in 1..Len(MAJOR_MARKETS) |->
                                    MAJOR_MARKETS[i] \notin hreflang_bases], 1)
              IN IF Len(missing_major) > 0 /\ Len(missing_major) <= MAX_MISSING_MAJOR
                 THEN Emit(st, Rec("info", "market-coverage",
                        "Site covers " \o ToString(Cardinality(hreflang_bases))
                        \o " language(s) via hreflang (" \o Join(covered_names, ", ")
                        \o "). Major markets not covered: " \o Join(missing_major, ", ")
                        \o "."))
                 ELSE st
         ELSE st

\* the list in rule order, before the sort
GenerateRules(ev, res) ==
    LET html_s == Get(ev.htmlSignals, Val(EmptyHtml))
        content_s == Get(ev.contentSignals, Val(EmptyContent))
        ip_geo == Get(ev.ipGeolocation, Val(EmptyIpGeo))
        lang_det == Get(ev.languageDetection, Val(EmptyLangDet))
        primary_region == Get(res.primaryRegion, Null)
        primary_lang == Get(res.primaryLanguage, Null)
        s1 == HreflangRule(InitialRecs, html_s, primary_lang)
        s2 == LocaleDeclarationRule(s1, html_s)
        s3 == ConsistencyRule(s2, html_s)
        s4 == DetectedMismatchRule(s3, html_s, lang_det)
        s5 == TldMismatchRule(s4, html_s, primary_lang)
        s6 == HostingRule(s5, ip_geo, primary_region)
        s7 == CharsetRule(s6, html_s)
        s8 == CurrencyRule(s7, content_s, primary_region)
        s9 == SocialRule(s8, content_s, primary_region)
        s10 == PaymentRule(s9, content_s, primary_region)
        s11 == SpellingRule(s10, content_s, primary_region)
        s12 == UnitsRule(s11, content_s, primary_region)
        s13 == UxRule(s12, content_s)
    IN CoverageRule(s13, html_s)

\* severity_order.get(r['severity'], 9)
SeverityRank(severity) ==
    CASE severity = "critical" -> 0
      [] severity = "warning" -> 1
      [] severity = "info" -> 2
      [] OTHER -> UNKNOWN_RANK

\* a variant that orders by severity but puts equal severities in reverse order
SortBySeverity_reversed_ties(recs) ==
    LET n == Len(recs)
        back == [i \in 1..n |-> recs[n + 1 - i]]
    IN SortedBy(back, [i \in 1..n |-> SeverityRank(back[i].severity)])

\* recs.sort(key=lambda r: severity_order.get(r['severity'], 9))
SortBySeverity(recs) ==
    SortedBy(recs, [i \in 1..Len(recs) |-> SeverityRank(recs[i].severity)])

CountSeverity(recs, severity) ==
    Cardinality({i \in 1..Len(recs) : recs[i].severity = severity})

\* a variant that charges a critical issue what a warning costs
ScoreOfCounts_critical_as_warning(critical_count, warning_count, info_count) ==
    LET score == FULL_SCORE - critical_count * PENALTY_WARNING
                 - warning_count * PENALTY_WARNING - info_count * PENALTY_INFO
    IN IF score > 0 THEN score ELSE 0

\* a variant without the floor at zero
ScoreOfCounts_unfloored(critical_count, warning_count, info_count) ==
    FULL_SCORE - critical_count * PENALTY_CRITICAL
    - warning_count * PENALTY_WARNING - info_count * PENALTY_INFO

\* score = max(100 - 20*critical - 10*warning - 2*info, 0)
ScoreOfCounts(critical_count, warning_count, info_count) ==
    LET score == FULL_SCORE - critical_count * PENALTY_CRITICAL
                 - warning_count * PENALTY_WARNING - info_count * PENALTY_INFO
    IN IF score > 0 THEN score ELSE 0

GradeOf(score) ==
    IF score >= GRADE_A THEN "A"
    ELSE IF score >= GRADE_B THEN "B"
    ELSE IF score >= GRADE_C THEN "C"
    ELSE IF score >= GRADE_D THEN "D"
    ELSE "F"

Summarize(recs) ==
    LET critical_count == CountSeverity(recs, "critical")
        warning_count == CountSeverity(recs, "warning")
        info_count == CountSeverity(recs, "info")
        score == ScoreOfCounts(critical_count, warning_count, info_count)
    IN [score |-> score, grade |-> GradeOf(score), totalIssues |-> Len(recs),
        critical |-> critical_count, warnings |-> warning_count, info |-> info_count]

RaisedReport == [raised |-> TRUE]

generate_recommendations(ev, res) ==
    LET st == GenerateRules(ev, res) IN
    IF st.raised THEN RaisedReport
    ELSE LET recs == SortBySeverity(st.recs)
         IN [raised |-> FALSE, summary |-> Summarize(recs), recommendations |-> recs]

----------------------------------------------------------------------------
(* the Evidence values the engine is run on *)

MaxList == 2    \* longest currencyCodes / phoneFormats / socialMediaSignals list
MaxTags == 2    \* longest enumerated hreflangTags list

SeqsUpTo(S, n) == UNION {[1..k -> S] : k \in 0..n}

Opt(S) == {Absent} \cup {Val(s) : s \in S}

HtmlOf(tld, lang, locale, mlang, charset, tags) ==
    Val([tld |-> tld, lang |-> lang, metaLocale |-> locale, metaLanguage |-> mlang,
         charset |-> charset, hreflangTags |-> tags])

Detected(lang, conf) ==
    Val([results |-> Val(<<[lang |-> Val(lang), confidence |-> Val(conf)]>>),
         error |-> Absent])

IpOf(cc, isp, org) ==
    Val([countryCode |-> Val(cc), isp |-> Val(isp), org |-> Val(org), error |-> Absent])

IpError ==
    Val([countryCode |-> Absent, isp |-> Absent, org |-> Absent,
         error |-> Val("DNS resolution failed")])

DetError == Val([results |-> Absent, error |-> Val("Insufficient text")])

ContentOf(codes, symbols, phones, socials, payments, spelling, units, ux) ==
    Val([currencyCodes |-> codes, currencySymbols |-> symbols, phoneFormats |-> phones,
         socialMediaSignals |-> socials, paymentMethods |-> payments,
         spellingCounts |-> spelling, unitCounts |-> units, uxSignals |-> ux])

Evidence(html, content, ip, det) ==
    [htmlSignals |-> html, contentSignals |-> content,
     ipGeolocation |-> ip, languageDetection |-> det]

EmptyEvidence == Evidence(Absent, Absent, Absent, Absent)

Confidences == {40, 50, 51, 70, 71, 100}

Isps == {"", "Sakura Internet", "Cloudflare, Inc.", "Twitter Inc", "Amazon.com"}

\* html lang alone: every language of the bare-code table, and codes outside it
LangOnlyInputs ==
    {Evidence(HtmlOf(Absent, Val(l), Absent, Absent, Absent, Absent),
              Absent, Absent, Absent) :
        l \in {LANG_TO_REGION[i][1] : i \in 1..Len(LANG_TO_REGION)}
              \cup {"en", "EN", "JA", " ja ", "xx", "en-", "zh-CN", "pt_BR"}}

\* the four declarations of htmlSignals against each other
DeclarationInputs ==
    {Evidence(HtmlOf(tld, lang, locale, mlang, Absent, Absent), Absent, Absent, Absent) :
        tld \in Opt({".jp", ".de", ".com"}),
        lang \in Opt({"ja", "en", "de-DE", "en-"}),
        locale \in Opt({"ja_JP", "en", "de"}),
        mlang \in Opt({"ja", "en-US", "en"})}

\* the detector against TLD and html lang
DetectionInputs ==
    {Evidence(HtmlOf(tld, lang, Absent, Absent, Absent, Absent), Absent, Absent, det) :
        tld \in Opt({".jp", ".de"}),
        lang \in Opt({"ja", "en", "de-DE"}),
        det \in {DetError, Val([results |-> Val(<<>>), error |-> Absent])}
                \cup {Detected(l, c) : l \in {"ja", "de", "en"}, c \in Confidences}}

\* IP geolocation against TLD and html lang
HostingInputs ==
    {Evidence(HtmlOf(tld, lang, Absent, Absent, Absent, Absent), Absent, ip, Absent) :
        tld \in Opt({".jp", ".de", ".com"}),
        lang \in Opt({"ja", "en"}),
        ip \in {IpError} \cup {IpOf(cc, isp, "") : cc \in {"JP", "US", "DE"}, isp \in Isps}}

\* TLD, html lang, IP and detector together, with or without the two meta tags
AgreeingInputs ==
    {Evidence(HtmlOf(Val(tld), Val(lang), locale, mlang, Absent, Absent),
              Absent, IpOf(cc, isp, ""), Detected(dl, c)) :
        tld \in {".jp", ".de"}, lang \in {"ja", "de"},
        locale \in Opt({"ja_JP"}), mlang \in Opt({"ja-JP"}),
        cc \in {"JP", "DE"}, isp \in {"", "Cloudflare, Inc."},
        dl \in {"ja", "de"}, c \in {50, 51, 100}}

Socials ==
    {[domain |-> Val("line.me"), region |-> Val("JP")],
     [domain |-> Val("example.net"), region |-> Val("CN/JP")]}

\* the per-match lists of contentSignals
ContentInputs ==
    {Evidence(HtmlOf(Val(tld), Absent, Absent, Absent, Absent, Absent),
              ContentOf(Val(codes), Absent, Val(phones), Val(socials),
                        Absent, Absent, Absent, Absent),
              Absent, Absent) :
        tld \in {".de", ".com"},
        codes \in SeqsUpTo({"JPY", "XXX"}, MaxList),
        phones \in SeqsUpTo({"JP", "US"}, MaxList),
        socials \in SeqsUpTo(Socials, MaxList)}

\* sections and optional fields that are missing, None or an {error} object
PartialInputs ==
    {Evidence(html, content, ip, det) :
        html \in {Absent, Null, Val(EmptyHtml),
                  HtmlOf(Null, Null, Null, Null, Null, Null),
                  HtmlOf(Val(".jp"), Absent, Absent, Absent, Absent, Absent)},
        content \in {Absent, Null, Val(EmptyContent),
                     ContentOf(Null, Absent, Absent, Absent, Absent, Absent, Absent, Absent),
                     ContentOf(Absent, Absent, Absent, Absent, Absent, Absent, Absent, Null)},
        ip \in {Absent, Null, IpError, Val(EmptyIpGeo),
                Val([countryCode |-> Val("JP"), isp |-> Null, org |-> Absent,
                     error |-> Absent]),
                Val([countryCode |-> Null, isp |-> Absent, org |-> Absent,
                     error |-> Absent])},
        det \in {Absent, Null, DetError,
                 Val([results |-> Null, error |-> Absent]),
                 Val([results |-> Val(<<[lang |-> Val("ja"), confidence |-> Null]>>),
                      error |-> Absent]),
                 Val([results |-> Val(<<[lang |-> Val("ja"), confidence |-> Absent]>>),
                      error |-> Absent])}}

Tags == {"x-default", "X-Default", "en", "ja-JP"}

TagLists ==
    SeqsUpTo(Tags, MaxTags)
    \cup {<<"en", "ja", "de", "x-default">>, <<"en-US", "zh_CN", "fr">>,
          <<"en", "zh", "ja", "ko", "de", "fr", "es", "pt", "ru", "ar">>}

\* hreflang tags against the declared and detected language
HreflangInputs ==
    {Evidence(HtmlOf(Absent, lang, locale, Absent, Val("UTF-8"), Val(tags)),
              Absent, Absent, det) :
        lang \in Opt({"ja", "en-US", "fr"}),
        locale \in Opt({"en_US"}),
        tags \in TagLists,
        det \in {Absent, Detected("ja", 71), Detected("de", 70)}}

UxOf(viewport, inputs, images) ==
    Val([viewport |-> viewport, inputs |-> Val(inputs), images |-> Val(images)])

InputLists ==
    {<<>>,
     <<[name |-> Val("email"), type |-> Val("text")]>>,
     <<[name |-> Val("Email"), type |-> Val("EMAIL")]>>,
     <<[name |-> Val("phone"), type |-> Null], [name |-> Val("user_email"), type |-> Null]>>,
     <<[name |-> Val("telephone"), type |-> Val("tel")], [name |-> Null, type |-> Val("text")]>>}

ImageLists ==
    {<<>>, <<[alt |-> Val("logo")]>>, <<[alt |-> Null]>>,
     <<[alt |-> Val("logo")], [alt |-> Val("")]>>,
     <<[alt |-> Null], [alt |-> Val("")], [alt |-> Val("logo")]>>}

\* charset and the UX signals
UxInputs ==
    {Evidence(HtmlOf(Absent, Val("ja"), Absent, Absent, charset, Absent),
              ContentOf(Absent, Absent, Absent, Absent, Absent, Absent, Absent,
                        UxOf(viewport, inputs, images)),
              Absent, Absent) :
        charset \in Opt({"UTF-8", "utf8", "Shift_JIS"}),
        viewport \in {Null, Val("width=device-width, initial-scale=1"), Val("width=1024")},
        inputs \in InputLists,
        images \in ImageLists}

Counts(a, b) == Val([US |-> Val(a), UK |-> Val(b)])
Units(a, b) == Val([Imperial |-> Val(a), Metric |-> Val(b)])

\* the currency and hosting signals of the market adaptation rules
CurrencyInputs ==
    {Evidence(HtmlOf(tld, Val(lang), Absent, Absent, Val("UTF-8"), Absent),
              ContentOf(Val(codes), Val(symbols), Absent, Absent, Absent,
                        Absent, Absent, Absent),
              ip, Absent) :
        tld \in Opt({".de"}),
        lang \in {"ja", "en-US", "en-GB"},
        codes \in {<<>>, <<"JPY">>, <<"USD", "EUR">>},
        symbols \in {<<>>, <<"CNY/JPY">>},
        ip \in {Absent, IpOf("US", "Sakura Internet", "")}}

\* the social, payment, spelling and unit signals of the adaptation rules
CulturalInputs ==
    {Evidence(HtmlOf(Absent, Val(lang), Absent, Absent, Val("UTF-8"), Absent),
              ContentOf(Absent, Absent, Absent, Val(socials), Val(payments),
                        spelling, units, Absent),
              Absent, Absent) :
        lang \in {"ja", "en-US", "en-GB"},
        socials \in {<<>>, <<[domain |-> Val("line.me"), region |-> Val("JP")]>>},
        payments \in {<<>>, <<[method |-> Val("Konbini"), region |-> Val("JP")]>>},
        spelling \in {Absent, Counts(3, 1), Counts(1, 3)},
        units \in {Absent, Units(3, 1), Units(1, 3)}}

\* html lang (blank, mixed case, outside the table) against the detector's top
\* language (below the cutoff, above it, null) with and without a region
PrecedenceInputs ==
    {Evidence(HtmlOf(tld, lang, locale, Absent, Absent, Absent), Absent, Absent, det) :
        tld \in Opt({".jp"}),
        lang \in Opt({" ", "EN-us", "fr"}),
        locale \in Opt({"de_DE"}),
        det \in {Absent, Detected("ja", 40), Detected("de", 70),
                 Val([results |-> Val(<<[lang |-> Null, confidence |-> Val(70)]>>),
                      error |-> Absent])}}

Inputs ==
    PrecedenceInputs \cup LangOnlyInputs \cup DeclarationInputs \cup DetectionInputs \cup HostingInputs
    \cup AgreeingInputs \cup ContentInputs \cup PartialInputs \cup HreflangInputs
    \cup UxInputs \cup CurrencyInputs \cup CulturalInputs \cup {EmptyEvidence}

----------------------------------------------------------------------------
(* the per-page pipeline of core.analyze: score, then audit *)

Init ==
    /\ evidence \in Inputs
    /\ result = NoValue
    /\ report = NoValue
    /\ pc = "start"
    /\ tally = NoValue
    /\ page_results = <<>>
    /\ site_result = NoValue
    /\ site_optimization = NoValue
    /\ crawl = NoValue

\* output['result'] = compute_result(output['evidence'])
ComputeResult ==
    /\ pc = "start"
    /\ result' = compute_result(evidence)
    /\ pc' = IF result'.raised THEN "raised" ELSE "scored"
    /\ UNCHANGED <<evidence, report, tally, crawl, site_vars>>

\* output['optimization'] = generate_recommendations(output['evidence'], output['result'])
GenerateRecommendations ==
    /\ pc = "scored"
    /\ report' = generate_recommendations(evidence, result)
    /\ pc' = IF report'.raised THEN "raised" ELSE "audited"
    /\ UNCHANGED <<evidence, result, tally, crawl, site_vars>>

Next == ComputeResult \/ GenerateRecommendations

Spec == Init /\ [][Next]_vars

----------------------------------------------------------------------------
(* properties of compute_result *)

\* compute_result has returned a Result for the evidence
Returned == result # NoValue /\ ~result.raised

\* a section of the evidence, an absent or None section read as an empty one
Section(entry, empty) == IF IsVal(entry) THEN entry.v ELSE empty

\* the bare-code table maps lang to region
TablePair(lang, region) ==
    \E i \in 1..Len(LANG_TO_REGION) : LANG_TO_REGION[i] = <<lang, region>>

\* C1: for every Evidence, the regionConfidence that compute_result returns
\* lies between 0.0 and 1.0 (0 and 100 hundredths).
C1_ConfidenceBounded ==
    Returned => (result.regionConfidence >= 0 /\ result.regionConfidence <= 100)

\* every source present and agreeing: the winning score equals max_weight
C1_Witness ==
    /\ Returned
    /\ evidence \in AgreeingInputs
    /\ evidence.htmlSignals.v.metaLocale = Val("ja_JP")
    /\ evidence.languageDetection.v.results.v[1].confidence = Val(100)
    /\ result.primaryRegion = Val("JP")
    /\ result.regionConfidence = 100

\* C2: compute_result never raises: whatever sections and optional fields of
\* the Evidence are absent or None, and whether or not ipGeolocation or
\* languageDetection is an {error} object, the call returns a Result.
C2_NeverRaises == result # NoValue => ~result.raised

\* a declaration split into subtags names a region: a non-empty region subtag,
\* or a bare code of the bare-code table
NamesRegion(parts) ==
    IF Len(parts) >= 2 THEN parts[2] # "" ELSE LangInTable(Lower(parts[1]))

\* no source of the evidence resolves to a region
NoSourceResolves(ev) ==
    LET html == Section(ev.htmlSignals, EmptyHtml)
        content == Section(ev.contentSignals, EmptyContent)
        ip == Section(ev.ipGeolocation, EmptyIpGeo)
        det == Section(ev.languageDetection, EmptyLangDet)
        codes == IF IsVal(content.currencyCodes) THEN content.currencyCodes.v ELSE <<>>
        phones == IF IsVal(content.phoneFormats) THEN content.phoneFormats.v ELSE <<>>
        socials ==
            IF IsVal(content.socialMediaSignals) THEN content.socialMediaSignals.v ELSE <<>>
    IN /\ ~(Truthy(html.tld) /\ html.tld.v \in DOMAIN TLD_MAP)
       /\ ~(Truthy(html.lang)
            /\ NamesRegion(Split(Strip(Lower(html.lang.v)), {"-", "_"})))
       /\ ~(Truthy(html.metaLocale) /\ NamesRegion(Split(html.metaLocale.v, {"_"})))
       /\ ~(Truthy(html.metaLanguage)
            /\ NamesRegion(Split(Strip(Lower(html.metaLanguage.v)), {"-", "_"})))
       /\ ~(/\ Truthy(det.results)
            /\ IsVal(det.results.v[1].lang)
            /\ LangInTable(det.results.v[1].lang.v)
            /\ IsVal(det.results.v[1].confidence)
            /\ det.results.v[1].confidence.v > 50)
       /\ ~Truthy(ip.countryCode)
       /\ \A i \in 1..Len(codes) : codes[i] \notin DOMAIN CURRENCY_MAP
       /\ \A i \in 1..Len(phones) : phones[i] = ""
       /\ \A i \in 1..Len(socials) :
            \/ ~Truthy(socials[i].region)
            \/ Contains(socials[i].region.v, "/")

\* C3: on empty evidence, and on any evidence in which no source resolves to
\* a region, compute_result returns primaryRegion None, regionConfidence 0.0,
\* likelyAudience "Unknown" and an empty signalBreakdown; on empty evidence it
\* does so without raising.
C3_NothingResolves ==
    (result # NoValue /\ NoSourceResolves(evidence)) =>
        /\ evidence = EmptyEvidence => ~result.raised
        /\ ~result.raised =>
            /\ result.primaryRegion = Null
            /\ result.regionConfidence = 0
            /\ result.likelyAudience = "Unknown"
            /\ result.signalBreakdown = <<>>

\* a gTLD, an unmapped html lang, unmapped currency codes and a shared social
\* domain: signals are present and none of them resolves
C3_Witness ==
    /\ Returned
    /\ NoSourceResolves(evidence)
    /\ evidence.htmlSignals = HtmlOf(Val(".com"), Val("en"), Val("en"), Val("en"),
                                      Absent, Absent)
    /\ result.primaryRegion = Null
    /\ result.primaryLanguage = Val("en")

\* C4: with html lang as the only signal, a bare code of the bare-code table
\* yields the table's region for it ("ja" yields "JP"), while "en" yields
\* primaryRegion None with primaryLanguage still "en".
C4_LangOnly ==
    (result # NoValue /\ evidence \in LangOnlyInputs) =>
        LET lang == evidence.htmlSignals.v.lang.v IN
        /\ ~result.raised
        /\ LangInTable(lang) =>
              /\ IsVal(result.primaryRegion)
              /\ TablePair(lang, result.primaryRegion.v)
        /\ lang = "ja" => result.primaryRegion = Val("JP")
        /\ lang = "en" =>
              /\ result.primaryRegion = Null
              /\ result.primaryLanguage = Val("en")

C4_Witness ==
    /\ Returned
    /\ evidence \in LangOnlyInputs
    /\ evidence.htmlSignals.v.lang = Val("ja")
    /\ result.primaryRegion = Val("JP")
    /\ result.primaryLanguage = Val("ja")

\* the evidence carries a top detection result with a language and a confidence
HasTopResult(ev) ==
    /\ IsVal(ev.languageDetection)
    /\ Truthy(ev.languageDetection.v.results)
    /\ IsVal(ev.languageDetection.v.results.v[1].lang)
    /\ IsVal(ev.languageDetection.v.results.v[1].confidence)

WithoutDetection(ev) == [ev EXCEPT !.languageDetection = Absent]

\* scores.get(region, 0)
RegionScore(scores, region) ==
    IF \E i \in 1..Len(scores) : scores[i].region = region
    THEN ScoreOf(scores, region) ELSE 0

\* C5: a top detection result with confidence <= 0.5 adds nothing to any
\* region's score, even when its language maps to a region, while its nominal
\* 0.6 is still added to max_weight (so region, confidence and breakdown are
\* those of the evidence without the detection); with confidence > 0.5 and a
\* mapped language, that language's region receives exactly 0.6 x confidence
\* and no other region's score changes.
C5_DetectionCutoff ==
    (Returned /\ HasTopResult(evidence)) =>
        LET top == evidence.languageDetection.v.results.v[1]
            conf == top.confidence.v
            before == HtmlAcc(evidence)
            after == DetectAcc(evidence)
            without == compute_result(WithoutDetection(evidence))
            regions == {before.scores[i].region : i \in 1..Len(before.scores)}
                       \cup {after.scores[i].region : i \in 1..Len(after.scores)}
        IN /\ conf <= 50 =>
                /\ after.scores = before.scores
                /\ after.max_weight = before.max_weight + 600
                /\ result.primaryRegion = without.primaryRegion
                /\ result.regionConfidence = without.regionConfidence
                /\ result.signalBreakdown = without.signalBreakdown
           /\ (conf > 50 /\ LangInTable(top.lang.v)) =>
                \A r \in regions :
                    RegionScore(after.scores, r)
                        = RegionScore(before.scores, r)
                          + (IF TablePair(top.lang.v, r) THEN 6 * conf ELSE 0)

\* "ja" detected at exactly 0.5 on a .de page: JP gets no score at all
C5_Witness ==
    /\ Returned
    /\ HasTopResult(evidence)
    /\ evidence.languageDetection = Detected("ja", 50)
    /\ evidence.htmlSignals.v.tld = Val(".de")
    /\ result.primaryRegion = Val("DE")
    /\ \A i \in 1..Len(result.signalBreakdown) : result.signalBreakdown[i].region # "JP"

\* a ccTLD that resolves, an IP country that differs from it, and nothing else
TldAgainstIp(ev) ==
    /\ ev \in HostingInputs
    /\ ev.htmlSignals.v.lang = Absent
    /\ Truthy(ev.htmlSignals.v.tld)
    /\ ev.htmlSignals.v.tld.v \in DOMAIN TLD_MAP
    /\ Truthy(ev.ipGeolocation.v.countryCode)
    /\ ev.ipGeolocation.v.countryCode.v # TLD_MAP[ev.htmlSignals.v.tld.v]

TldAlone(ev) == [ev EXCEPT !.ipGeolocation = Absent]

\* C6: a conflicting IP country, whatever the ISP (CDN or not), never raises
\* regionConfidence above that of the ccTLD alone.
C6_ConflictNeverRaisesConfidence ==
    (Returned /\ TldAgainstIp(evidence)) =>
        result.regionConfidence <= compute_result(TldAlone(evidence)).regionConfidence

\* ccTLD, bare html lang, IP country and a top detection above 0.5 all resolve
\* to region, and no other signal is present
AllAgreeOn(ev, region) ==
    /\ ev \in AgreeingInputs
    /\ ev.htmlSignals.v.metaLocale = Absent
    /\ ev.htmlSignals.v.metaLanguage = Absent
    /\ TLD_MAP[ev.htmlSignals.v.tld.v] = region
    /\ TablePair(ev.htmlSignals.v.lang.v, region)
    /\ ev.ipGeolocation.v.countryCode = Val(region)
    /\ TablePair(ev.languageDetection.v.results.v[1].lang.v, region)
    /\ ev.languageDetection.v.results.v[1].confidence.v > 50

\* C7: when a ccTLD, a bare html lang, the IP country (any ISP) and the top
\* detection result (confidence > 0.5) all resolve to one region R and nothing
\* else is present, primaryRegion is R and regionConfidence exceeds 0.5.
C7_AgreementWins ==
    \A region \in DOMAIN COUNTRY_NAMES :
        (Returned /\ AllAgreeOn(evidence, region)) =>
            /\ result.primaryRegion = Val(region)
            /\ result.regionConfidence > 50

\* the weakest agreeing case: a CDN-hosted IP and a detection just above 0.5
C7_Witness ==
    /\ Returned
    /\ AllAgreeOn(evidence, "JP")
    /\ evidence.ipGeolocation.v.isp = Val("Cloudflare, Inc.")
    /\ evidence.languageDetection.v.results.v[1].confidence = Val(51)
    /\ result.primaryRegion = Val("JP")

----------------------------------------------------------------------------
(* properties of generate_recommendations *)

\* generate_recommendations has returned a report for the evidence and result
Audited == report # NoValue /\ ~report.raised

\* the recommendations of one severity, in list order
OfSeverity(recs, severity) ==
    LET Wanted(r) == r.severity = severity IN SelectSeq(recs, Wanted)

\* C8: the returned recommendations are the stable sort of the list in rule
\* order by severity rank (critical 0, warning 1, info 2): ranks never
\* decrease along the list, and recommendations of equal severity keep the
\* order in which their rules fired.
C8_StableSeverityOrder ==
    Audited =>
        LET fired == GenerateRules(evidence, result).recs
            recs == report.recommendations
            Rank(r) == CASE r.severity = "critical" -> 0
                         [] r.severity = "warning" -> 1
                         [] r.severity = "info" -> 2
        IN /\ Len(recs) = Len(fired)
           /\ \A i \in 1..(Len(recs) - 1) : Rank(recs[i]) <= Rank(recs[i + 1])
           /\ \A severity \in {"critical", "warning", "info"} :
                OfSeverity(recs, severity) = OfSeverity(fired, severity)

\* the sort moved something, and two different recommendations share a severity
C8_Witness ==
    /\ Audited
    /\ report.recommendations # GenerateRules(evidence, result).recs
    /\ \E i, j \in 1..Len(report.recommendations) :
            /\ i < j
            /\ report.recommendations[i].severity = report.recommendations[j].severity
            /\ report.recommendations[i] # report.recommendations[j]

\* positions of the hreflang recommendations of one severity in the report
HreflangIssues(severity) ==
    {i \in 1..Len(report.recommendations) :
        /\ report.recommendations[i].category = "hreflang"
        /\ report.recommendations[i].severity = severity}

\* the hreflang tags of the evidence; a missing, None or empty list is <<>>
TagsOf(ev) ==
    LET html == Section(ev.htmlSignals, EmptyHtml)
    IN IF Truthy(html.hreflangTags) THEN html.hreflangTags.v ELSE <<>>

\* some tag is "x-default", whatever its case
HasXDefault(tags) == \E i \in 1..Len(tags) : Lower(tags[i]) = "x-default"

\* some tag other than x-default shares the base language of lang
HasSelfReference(tags, lang) ==
    \E i \in 1..Len(tags) :
        /\ Lower(tags[i]) # "x-default"
        /\ BaseLang(Lower(tags[i])) = BaseLang(lang)

\* C9: the hreflang audit.  Without hreflang tags there is exactly one
\* hreflang recommendation and it is critical; with tags of which none is
\* "x-default" (case-insensitively) there is a critical one; with "x-default"
\* present there is no critical one, and there is an hreflang warning exactly
\* when result.primaryLanguage is set and no tag other than x-default shares
\* its base language.
C9_HreflangAudit ==
    Audited =>
        LET tags == TagsOf(evidence)
            lang == result.primaryLanguage
        IN /\ tags = <<>> =>
                /\ Cardinality(HreflangIssues("critical")) = 1
                /\ HreflangIssues("warning") = {}
                /\ HreflangIssues("info") = {}
           /\ (tags # <<>> /\ ~HasXDefault(tags)) => HreflangIssues("critical") # {}
           /\ HasXDefault(tags) =>
                /\ HreflangIssues("critical") = {}
                /\ HreflangIssues("warning") # {}
                     <=> (Truthy(lang) /\ ~HasSelfReference(tags, lang.v))

\* x-default written in another case, and no tag for the page's own language
C9_Witness ==
    /\ Audited
    /\ TagsOf(evidence) = <<"X-Default", "en">>
    /\ result.primaryLanguage = Val("ja")
    /\ HreflangIssues("critical") = {}
    /\ HreflangIssues("warning") # {}

\* the number of recommendations of one severity in the report
Issues(severity) ==
    Cardinality({i \in 1..Len(report.recommendations) :
                    report.recommendations[i].severity = severity})

\* 100 - 20*critical - 10*warnings - 2*info, before the floor at 0
UnflooredScore == 100 - 20 * Issues("critical") - 10 * Issues("warning") - 2 * Issues("info")

\* C10: in every report, summary.critical / warnings / info count the
\* recommendations of each severity, totalIssues is their sum and the length
\* of the list, score is max(0, 100 - 20*critical - 10*warnings - 2*info) and
\* so lies in [0, 100], and grade is A from 80, B from 60, C from 40, D from
\* 20 and F below 20.
C10_Summary ==
    Audited =>
        LET summary == report.summary
            score == summary.score
        IN /\ summary.critical = Issues("critical")
           /\ summary.warnings = Issues("warning")
           /\ summary.info = Issues("info")
           /\ summary.totalIssues = summary.critical + summary.warnings + summary.info
           /\ summary.totalIssues = Len(report.recommendations)
           /\ score = (IF UnflooredScore > 0 THEN UnflooredScore ELSE 0)
           /\ score >= 0 /\ score <= 100
           /\ summary.grade = "A" <=> score >= 80
           /\ summary.grade = "B" <=> (score >= 60 /\ score < 80)
           /\ summary.grade = "C" <=> (score >= 40 /\ score < 60)
           /\ summary.grade = "D" <=> (score >= 20 /\ score < 40)
           /\ summary.grade = "F" <=> score < 20

\* enough issues that the floor at 0 is what decides the score
C10_Witness ==
    /\ Audited
    /\ UnflooredScore < 0
    /\ report.summary.score = 0
    /\ report.summary.grade = "F"

----------------------------------------------------------------------------
(* the summary of a recommendation list as issues are added to it *)

MaxIssues == 6    \* most recommendations of one severity in the tallied list

\* a list holding the given number of recommendations of each severity
IssuesOf(critical_count, warning_count, info_count) ==
    [i \in 1..critical_count |-> Rec("critical", "hreflang", "issue")]
    \o [i \in 1..warning_count |-> Rec("warning", "charset", "issue")]
    \o [i \in 1..info_count |-> Rec("info", "ux-forms", "issue")]

ScoreInit ==
    /\ tally = Summarize(IssuesOf(0, 0, 0))
    /\ pc = "tally"
    /\ evidence = EmptyEvidence
    /\ result = NoValue
    /\ report = NoValue
    /\ page_results = <<>>
    /\ site_result = NoValue
    /\ site_optimization = NoValue
    /\ crawl = NoValue

\* one more critical recommendation in the list, and the summary of the longer list
AddCritical ==
    /\ pc = "tally"
    /\ tally.critical < MaxIssues
    /\ tally' = Summarize(IssuesOf(tally.critical + 1, tally.warnings, tally.info))
    /\ UNCHANGED <<pc, page_vars, site_vars, crawl>>

\* one more warning
AddWarning ==
    /\ pc = "tally"
    /\ tally.warnings < MaxIssues
    /\ tally' = Summarize(IssuesOf(tally.critical, tally.warnings + 1, tally.info))
    /\ UNCHANGED <<pc, page_vars, site_vars, crawl>>

\* one more info
AddInfo ==
    /\ pc = "tally"
    /\ tally.info < MaxIssues
    /\ tally' = Summarize(IssuesOf(tally.critical, tally.warnings, tally.info + 1))
    /\ UNCHANGED <<pc, page_vars, site_vars, crawl>>

ScoreNext == AddCritical \/ AddWarning \/ AddInfo

ScoreSpec == ScoreInit /\ [][ScoreNext]_vars

\* A > B > C > D > F
GradeLevel(grade) ==
    CASE grade = "A" -> 4 [] grade = "B" -> 3 [] grade = "C" -> 2
      [] grade = "D" -> 1 [] grade = "F" -> 0

\* C11: adding one critical issue to any counts with score s yields the score
\* max(0, s - 20), and the same or a lower grade; adding a warning or an info
\* never raises the score or the grade.
C11_ScoreMonotone ==
    [][/\ tally'.critical = tally.critical + 1 =>
            /\ tally'.score = (IF tally.score > 20 THEN tally.score - 20 ELSE 0)
            /\ GradeLevel(tally'.grade) <= GradeLevel(tally.grade)
       /\ (tally'.warnings = tally.warnings + 1 \/ tally'.info = tally.info + 1) =>
            /\ tally'.score <= tally.score
            /\ GradeLevel(tally'.grade) <= GradeLevel(tally.grade)]_vars

\* the last critical issue took a score between 1 and 19 down to the floor
C11_Witness ==
    /\ pc = "tally"
    /\ tally.critical >= 1
    /\ tally.score = 0
    /\ 100 - 20 * (tally.critical - 1) - 10 * tally.warnings - 2 * tally.info \in 1..19

----------------------------------------------------------------------------
(* further properties of generate_recommendations *)

\* C12: generate_recommendations never raises: whatever sections and optional
\* fields of the Evidence are absent or None, for the Result compute_result
\* produced on that evidence the call returns a report with a summary and a
\* recommendations list.
C12_AuditNeverRaises == report # NoValue => ~report.raised

\* the evidence carries no signal at all: every field the rules read is
\* missing, None or empty
NoSignals(ev) ==
    LET html == Section(ev.htmlSignals, EmptyHtml)
        content == Section(ev.contentSignals, EmptyContent)
        ip == Section(ev.ipGeolocation, EmptyIpGeo)
        det == Section(ev.languageDetection, EmptyLangDet)
    IN /\ ~Truthy(html.tld) /\ ~Truthy(html.lang) /\ ~Truthy(html.metaLocale)
       /\ ~Truthy(html.metaLanguage) /\ ~Truthy(html.charset)
       /\ ~Truthy(html.hreflangTags)
       /\ ~Truthy(content.currencyCodes) /\ ~Truthy(content.currencySymbols)
       /\ ~Truthy(content.phoneFormats) /\ ~Truthy(content.socialMediaSignals)
       /\ ~Truthy(content.paymentMethods)
       /\ content.spellingCounts = Absent /\ content.unitCounts = Absent
       /\ content.uxSignals = Absent
       /\ ~Truthy(ip.countryCode)
       /\ ~Truthy(det.results)

\* the categories of the report's recommendations of one severity, in list order
CategoriesOf(severity) ==
    LET found == OfSeverity(report.recommendations, severity)
    IN [i \in 1..Len(found) |-> found[i].category]

\* C13: a page with no signals at all, audited with a Result whose region and
\* language are null, gets exactly 3 critical recommendations (hreflang,
\* locale-declaration, ux-mobile), 2 warnings (locale-declaration, charset)
\* and 1 info (locale-declaration), hence score 18 and grade F.
C13_EmptySiteGradeF ==
    (Audited /\ NoSignals(evidence)) =>
        /\ result.primaryRegion = Null
        /\ result.primaryLanguage = Null
        /\ CategoriesOf("critical") = <<"hreflang", "locale-declaration", "ux-mobile">>
        /\ CategoriesOf("warning") = <<"locale-declaration", "charset">>
        /\ CategoriesOf("info") = <<"locale-declaration">>
        /\ Len(report.recommendations) = 6
        /\ report.summary.critical = 3
        /\ report.summary.warnings = 2
        /\ report.summary.info = 1
        /\ report.summary.score = 18
        /\ report.summary.grade = "F"

C13_Witness ==
    /\ Audited
    /\ evidence = EmptyEvidence
    /\ report.summary.score = 18
    /\ report.summary.grade = "F"

----------------------------------------------------------------------------
(* aggregation.py: aggregate_site_results, aggregate_site_optimization *)

\* a page output as analyze_site builds it: result and optimization, None until set
PageOutput(res, opt) == [result |-> res, optimization |-> opt]

\* a variant that counts one page for a region that no page reported
CountOf_default_one(counts, key) ==
    IF \E i \in 1..Len(counts) : counts[i].region = key
    THEN ScoreOf(counts, key) ELSE 1

\* counts.get(key, 0)
CountOf(counts, key) ==
    IF \E i \in 1..Len(counts) : counts[i].region = key
    THEN ScoreOf(counts, key) ELSE 0

\* for region, score in breakdown.items(): all_scores[region] = all_scores.get(region, 0) + score
RECURSIVE AddBreakdown(_, _, _)
AddBreakdown(all_scores, breakdown, i) ==
    IF i > Len(breakdown) THEN all_scores
    ELSE AddBreakdown(Bump(all_scores, breakdown[i].region, breakdown[i].score),
                      breakdown, i + 1)

\* a variant whose score map starts with a default region
InitialSiteAcc_default_region ==
    [all_scores |-> <<[region |-> "US", score |-> 0]>>,
     lang_counts |-> <<>>, region_counts |-> <<>>]

\* all_scores = {}; lang_counts = {}; region_counts = {}
InitialSiteAcc == [all_scores |-> <<>>, lang_counts |-> <<>>, region_counts |-> <<>>]

\* the loop over page_results: pages without a result are skipped
RECURSIVE SiteLoop(_, _, _)
SiteLoop(acc, pages, i) ==
    IF i > Len(pages) THEN acc
    ELSE LET res == Get(pages[i].result, Null) IN
         IF ~IsVal(res) THEN SiteLoop(acc, pages, i + 1)
         ELSE LET pr_region == Get(res.v.primaryRegion, Null)
                  pr_lang == Get(res.v.primaryLanguage, Null)
              IN SiteLoop(
                    [all_scores |-> AddBreakdown(acc.all_scores, res.v.signalBreakdown, 1),
                     region_counts |->
                        IF Truthy(pr_region)
                        THEN Bump(acc.region_counts, pr_region.v, 1)
                        ELSE acc.region_counts,
                     lang_counts |->
                        IF Truthy(pr_lang)
                        THEN Bump(acc.lang_counts, pr_lang.v, 1)
                        ELSE acc.lang_counts],
                    pages, i + 1)

\* a variant that sums the pages' top scores instead of their confidences
RECURSIVE SumConfidence_from_scores(_, _)
SumConfidence_from_scores(pages, i) ==
    IF i > Len(pages) THEN 0
    ELSE (IF IsVal(pages[i].result) /\ Len(pages[i].result.v.signalBreakdown) > 0
          THEN pages[i].result.v.signalBreakdown[1].score \div 10 ELSE 0)
         + SumConfidence_from_scores(pages, i + 1)

\* sum(confidences)
RECURSIVE SumConfidence(_, _)
SumConfidence(pages, i) ==
    IF i > Len(pages) THEN 0
    ELSE (IF IsVal(pages[i].result) THEN pages[i].result.v.regionConfidence ELSE 0)
         + SumConfidence(pages, i + 1)

aggregate_site_results(pages) ==
    IF Len(pages) = 0 THEN Null
    ELSE LET acc == SiteLoop(InitialSiteAcc, pages, 1)
             all_scores == acc.all_scores
             primary_region ==
                 IF Len(all_scores) > 0 THEN Val(MaxRegion(all_scores)) ELSE Null
             primary_lang ==
                 IF Len(acc.lang_counts) > 0 THEN Val(MaxRegion(acc.lang_counts)) ELSE Null
             num_pages == Cardinality({i \in 1..Len(pages) : IsVal(pages[i].result)})
             consistency ==
                 IF Truthy(primary_region) /\ num_pages > 0
                 THEN RoundRatio(CountOf(acc.region_counts, primary_region.v), num_pages)
                 ELSE 0
             avg_confidence ==
                 IF num_pages > 0
                 THEN RoundRatio(SumConfidence(pages, 1), 100 * num_pages) ELSE 0
             country_name ==
                 IF Truthy(primary_region)
                 THEN Val(NameOf(COUNTRY_NAMES, primary_region.v)) ELSE Null
             lang_name ==
                 IF Truthy(primary_lang)
                 THEN Val(NameOf(LANG_NAMES, primary_lang.v)) ELSE Null
             audience ==
                 IF Truthy(primary_region) /\ Truthy(primary_lang)
                 THEN lang_name.v \o "-speaking audience in " \o country_name.v
                 ELSE IF Truthy(primary_region)
                 THEN "Audience in " \o country_name.v
                 ELSE "Unknown"
         IN Val([primaryRegion |-> primary_region,
                 primaryRegionName |-> country_name,
                 primaryLanguage |-> primary_lang,
                 primaryLanguageName |-> lang_name,
                 likelyAudience |-> audience,
                 regionConfidence |-> avg_confidence,
                 regionConsistency |-> consistency,
                 pagesAnalyzed |-> num_pages,
                 regionDistribution |->
                     SortedBy(all_scores,
                              [i \in 1..Len(all_scores) |-> 0 - all_scores[i].score]),
                 languageDistribution |-> acc.lang_counts])

DEDUP_PREFIX == 80

\* a variant that keys on the whole issue text
DedupKey_whole_issue(rec) == <<rec.severity, rec.category, rec.issue>>

\* (rec['severity'], rec['category'], rec['issue'][:80])
DedupKey(rec) ==
    <<rec.severity, rec.category,
      SubSeq(rec.issue, 1, IF Len(rec.issue) < DEDUP_PREFIX THEN Len(rec.issue)
                           ELSE DEDUP_PREFIX)>>

\* the recommendations of every page that has an optimization report, in page order
RECURSIVE PageRecs(_, _)
PageRecs(pages, i) ==
    IF i > Len(pages) THEN <<>>
    ELSE LET opt == Get(pages[i].optimization, Null)
         IN (IF IsVal(opt) THEN opt.v.recommendations ELSE <<>>) \o PageRecs(pages, i + 1)

\* if dedup_key not in seen: seen.add(dedup_key); all_recs.append(rec)
Deduplicated(recs) ==
    SelectIdx(recs,
              [i \in 1..Len(recs) |->
                  \A j \in 1..(i - 1) : DedupKey(recs[j]) # DedupKey(recs[i])],
              1)

aggregate_site_optimization(pages) ==
    LET found == Deduplicated(PageRecs(pages, 1))
        all_recs ==
            SortedBy(found,
                     [i \in 1..Len(found) |->
                         CASE found[i].severity = "critical" -> 0
                           [] found[i].severity = "warning" -> 1
                           [] found[i].severity = "info" -> 2
                           [] OTHER -> 9])
        critical_count == Cardinality({i \in 1..Len(all_recs) : all_recs[i].severity = "critical"})
        warning_count == Cardinality({i \in 1..Len(all_recs) : all_recs[i].severity = "warning"})
        info_count == Cardinality({i \in 1..Len(all_recs) : all_recs[i].severity = "info"})
        raw == 100 - critical_count * 20 - warning_count * 10 - info_count * 2
        score == IF raw > 0 THEN raw ELSE 0
        grade == IF score >= 80 THEN "A"
                 ELSE IF score >= 60 THEN "B"
                 ELSE IF score >= 40 THEN "C"
                 ELSE IF score >= 20 THEN "D"
                 ELSE "F"
    IN [summary |-> [score |-> score, grade |-> grade, totalIssues |-> Len(all_recs),
                     critical |-> critical_count, warnings |-> warning_count,
                     info |-> info_count],
        recommendations |-> all_recs]

----------------------------------------------------------------------------
(* the site run of core.analyze_site: analyze each page, then aggregate *)

MaxPages == 3    \* most pages collected before the aggregation

PageOf(tld, lang, locale, tags) ==
    Evidence(HtmlOf(tld, lang, locale, Absent, Absent, tags), Absent, Absent, Absent)

\* a page whose form has one text field, named for an e-mail address or a
\* telephone number
FormPage ==
    Evidence(HtmlOf(Absent, Val("ja"), Absent, Absent, Absent, Absent),
             ContentOf(Absent, Absent, Absent, Absent, Absent, Absent, Absent,
                       UxOf(Val("width=device-width, initial-scale=1"),
                            <<[name |-> Val("contact_email_or_telephone_number"),
                               type |-> Val("text")]>>,
                            <<>>)),
             Absent, Absent)

\* the pages of the crawled site: Japanese and US pages of differing signal
\* strength, pages with signals for two regions, one without signals, two
\* pages whose hreflang warnings differ only after the 80th character, and a
\* page with a form
SiteEvidence ==
    {PageOf(Absent, Val("ja"), Absent, Absent),
     PageOf(Val(".jp"), Val("ja"), Absent, Absent),
     PageOf(Absent, Val("en-US"), Val("en_US"), Absent),
     PageOf(Absent, Val("en-US"), Absent, Absent),
     PageOf(Val(".jp"), Val("en-US"), Absent, Absent),
     PageOf(Val(".de"), Val("en-US"), Absent, Absent),
     FormPage,
     PageOf(Absent, Val("ja"), Absent, Val(<<"x-default", "en">>)),
     PageOf(Absent, Val("ja"), Absent, Val(<<"x-default", "fr">>)),
     EmptyEvidence}

SiteInit ==
    /\ page_results = <<>>
    /\ site_result = NoValue
    /\ site_optimization = NoValue
    /\ crawl = NoValue
    /\ pc = "pages"
    /\ evidence = EmptyEvidence
    /\ result = NoValue
    /\ report = NoValue
    /\ tally = NoValue

\* one turn of the page loop begins: the evidence of the next page is collected
CollectPage ==
    /\ pc = "pages"
    /\ Len(page_results) < MaxPages
    /\ evidence' \in SiteEvidence
    /\ result' = NoValue
    /\ report' = NoValue
    /\ pc' = "start"
    /\ UNCHANGED <<tally, crawl, site_vars>>

\* page_results.append(page_output), after the page's result and optimization
AppendPage ==
    /\ pc = "audited"
    /\ page_results' = Append(page_results, PageOutput(Val(result), Val(report)))
    /\ pc' = "pages"
    /\ UNCHANGED <<page_vars, tally, crawl, site_result, site_optimization>>

\* a page output that never received a result or an optimization report
RecordEmptyPage ==
    /\ pc = "pages"
    /\ Len(page_results) < MaxPages
    /\ page_results' = Append(page_results, PageOutput(Null, Null))
    /\ UNCHANGED <<pc, page_vars, tally, crawl, site_result, site_optimization>>

\* output['siteResult'] = aggregate_site_results(page_results)
AggregateSiteResults ==
    /\ pc = "pages"
    /\ site_result' = aggregate_site_results(page_results)
    /\ pc' = "aggregated"
    /\ UNCHANGED <<page_vars, tally, crawl, page_results, site_optimization>>

\* a variant that takes the pages off the list as it reads them
AggregateSiteOptimization_draining ==
    /\ pc = "aggregated"
    /\ site_optimization' = aggregate_site_optimization(page_results)
    /\ page_results' = <<>>
    /\ pc' = "done"
    /\ UNCHANGED <<page_vars, tally, crawl, site_result>>

\* output['siteOptimization'] = aggregate_site_optimization(page_results)
AggregateSiteOptimization ==
    /\ pc = "aggregated"
    /\ site_optimization' = aggregate_site_optimization(page_results)
    /\ pc' = "done"
    /\ UNCHANGED <<page_vars, tally, crawl, page_results, site_result>>

SiteNext ==
    \/ CollectPage \/ ComputeResult \/ GenerateRecommendations \/ AppendPage
    \/ RecordEmptyPage \/ AggregateSiteResults \/ AggregateSiteOptimization

SiteSpec == SiteInit /\ [][SiteNext]_vars

----------------------------------------------------------------------------
(* properties of the aggregation *)

\* aggregate_site_results has returned an aggregate for the collected pages
Aggregated == pc \in {"aggregated", "done"} /\ IsVal(site_result)

\* the primaryRegion of page i
PageRegion(i) == page_results[i].result.v.primaryRegion

\* three pages with results, two of them with primaryRegion JP and one with US
TwoJpOneUs ==
    /\ Len(page_results) = 3
    /\ \A i \in 1..3 : IsVal(page_results[i].result)
    /\ \E us \in 1..3 :
          /\ PageRegion(us) = Val("US")
          /\ \A i \in (1..3) \ {us} : PageRegion(i) = Val("JP")

\* every page's signalBreakdown has the page's own primaryRegion as top entry
OwnRegionOnTop ==
    \A i \in 1..Len(page_results) :
        (IsVal(page_results[i].result) /\ IsVal(PageRegion(i))) =>
            page_results[i].result.v.signalBreakdown[1].region = PageRegion(i).v

\* the score of a region summed over the signalBreakdowns of all pages
RECURSIVE SummedScore(_, _)
SummedScore(region, i) ==
    IF i > Len(page_results) THEN 0
    ELSE (IF IsVal(page_results[i].result)
          THEN RegionScore(page_results[i].result.v.signalBreakdown, region) ELSE 0)
         + SummedScore(region, i + 1)

\* the regions scored on any page
ScoredRegions ==
    UNION {{page_results[i].result.v.signalBreakdown[j].region :
                j \in 1..Len(page_results[i].result.v.signalBreakdown)} :
           i \in {k \in 1..Len(page_results) : IsVal(page_results[k].result)}}

\* the pages with a result, and those of them whose primaryRegion is the site's
AnalyzedPages == {i \in 1..Len(page_results) : IsVal(page_results[i].result)}
AgreeingPages == {i \in AnalyzedPages : PageRegion(i) = site_result.v.primaryRegion}

\* C14 as stated: over any three page results whose primaryRegion values are
\* JP, JP and US (each with its own primaryRegion on top of its breakdown),
\* the site primaryRegion is "JP" and regionConsistency is 0.67.
C14_TwoOfThreeWins ==
    (Aggregated /\ TwoJpOneUs /\ OwnRegionOnTop) =>
        /\ site_result.v.primaryRegion = Val("JP")
        /\ site_result.v.regionConsistency = 67

\* C14 as amended: over three page results whose primaryRegion values are JP,
\* JP and US, the site primaryRegion is "JP" and regionConsistency 0.67
\* provided JP's score summed over the pages' signalBreakdowns exceeds every
\* other region's; and in every aggregate with a primaryRegion,
\* regionConsistency is the fraction of analyzed pages whose own primaryRegion
\* equals the site's, rounded to 2 decimals.
C14_SummedScoreWins ==
    Aggregated =>
        /\ (/\ TwoJpOneUs /\ OwnRegionOnTop
            /\ \A r \in ScoredRegions \ {"JP"} : SummedScore(r, 1) < SummedScore("JP", 1)) =>
                /\ site_result.v.primaryRegion = Val("JP")
                /\ site_result.v.regionConsistency = 67
        /\ IsVal(site_result.v.primaryRegion) =>
                LET agree == Cardinality(AgreeingPages)
                    pages == Cardinality(AnalyzedPages)
                    gap == 100 * agree - site_result.v.regionConsistency * pages
                IN 2 * gap <= pages /\ 2 * gap >= 0 - pages

\* two JP pages outscore the US page between them
C14_Witness ==
    /\ Aggregated
    /\ TwoJpOneUs
    /\ PageRegion(1) = Val("US")
    /\ SummedScore("US", 1) > 0
    /\ SummedScore("US", 1) < SummedScore("JP", 1)
    /\ site_result.v.primaryRegion = Val("JP")
    /\ site_result.v.regionConsistency = 67

\* C15: aggregation over zero pages returns the null aggregate, and a page
\* list in which no page has a result never yields an aggregate with a
\* primaryRegion.
C15_NoPagesNoRegion ==
    pc \in {"aggregated", "done"} =>
        /\ page_results = <<>> => site_result = Null
        /\ AnalyzedPages = {} =>
              \/ site_result = Null
              \/ IsVal(site_result) /\ site_result.v.primaryRegion = Null

\* an aggregate over pages none of which has a result
C15_Witness ==
    /\ pc \in {"aggregated", "done"}
    /\ Len(page_results) > 0
    /\ AnalyzedPages = {}
    /\ IsVal(site_result)
    /\ site_result.v.primaryRegion = Null
    /\ site_result.v.pagesAnalyzed = 0

\* the recommendations of all page reports, in page order
AllPageRecs == PageRecs(page_results, 1)

\* severity, category and the first 80 characters of the issue
KeyOf(rec) ==
    <<rec.severity, rec.category,
      SubSeq(rec.issue, 1, IF Len(rec.issue) > 80 THEN 80 ELSE Len(rec.issue))>>

\* C16: aggregate_site_optimization returns exactly one recommendation per
\* distinct key (severity, category, first 80 characters of issue) of the
\* pages' reports, namely its first occurrence in page order, sorted by
\* severity rank, with the summary computed from that list by the per-page
\* formula and thresholds.
C16_DeduplicatedReport ==
    pc = "done" =>
        LET out == site_optimization.recommendations
            all == AllPageRecs
        IN /\ {KeyOf(out[i]) : i \in 1..Len(out)} = {KeyOf(all[j]) : j \in 1..Len(all)}
           /\ \A i, j \in 1..Len(out) : i # j => KeyOf(out[i]) # KeyOf(out[j])
           /\ \A i \in 1..Len(out) :
                 \E j \in 1..Len(all) :
                    /\ all[j] = out[i]
                    /\ \A k \in 1..(j - 1) : KeyOf(all[k]) # KeyOf(out[i])
           /\ \A i, j \in 1..Len(out) :
                 i < j => SeverityRank(out[i].severity) <= SeverityRank(out[j].severity)
           /\ site_optimization.summary = Summarize(out)

\* two pages report issues that differ only after the 80th character, and the
\* site report keeps the first of them
C16_Witness ==
    /\ pc = "done"
    /\ \E i, j \in 1..Len(AllPageRecs) :
          /\ i < j
          /\ AllPageRecs[i] # AllPageRecs[j]
          /\ KeyOf(AllPageRecs[i]) = KeyOf(AllPageRecs[j])
          /\ \E k \in 1..Len(site_optimization.recommendations) :
                site_optimization.recommendations[k] = AllPageRecs[i]
          /\ \A k \in 1..Len(site_optimization.recommendations) :
                site_optimization.recommendations[k] # AllPageRecs[j]
    /\ Len(site_optimization.recommendations) < Len(AllPageRecs)

\* a step in which one of the four functions is called and returns or raises
FunctionCall ==
    /\ pc \in {"start", "scored", "pages", "aggregated"}
    /\ pc' \in {"scored", "audited", "raised", "aggregated", "done"}

----------------------------------------------------------------------------
(* properties of the weights and of the language *)

\* the evidence with one field of htmlSignals left out
WithoutHtmlField(ev, field) ==
    [ev EXCEPT !.htmlSignals = Val([@.v EXCEPT ![field] = Absent])]

\* C18: each of the six single-valued sources adds a positive weight to
\* max_weight on every call, so a value of tld, lang, og:locale or
\* content-language that is present but adds no score never gives a higher
\* regionConfidence than the same evidence without that value.
C18_EverySourceWeighs ==
    (Returned /\ IsVal(evidence.htmlSignals)) =>
        LET html_s == evidence.htmlSignals
            a1 == TldStep(InitialAcc, html_s)
            a2 == LangStep(a1, html_s)
            a3 == LocaleStep(a2, html_s)
            a4 == ContentLangStep(a3, html_s)
            a5 == DetectAcc(evidence)
            a6 == IpAcc(evidence)
            before == [tld |-> InitialAcc, lang |-> a1, metaLocale |-> a2, metaLanguage |-> a3]
            after == [tld |-> a1, lang |-> a2, metaLocale |-> a3, metaLanguage |-> a4]
        IN /\ InitialAcc.max_weight < a1.max_weight
           /\ a1.max_weight < a2.max_weight
           /\ a2.max_weight < a3.max_weight
           /\ a3.max_weight < a4.max_weight
           /\ a4.max_weight < a5.max_weight
           /\ a5.max_weight < a6.max_weight
           /\ \A field \in {"tld", "lang", "metaLocale", "metaLanguage"} :
                 (Truthy(html_s.v[field]) /\ after[field].scores = before[field].scores) =>
                     result.regionConfidence <=
                         compute_result(WithoutHtmlField(evidence, field)).regionConfidence

\* the score map of the evidence, in insertion order
ScoreMap == Accumulate(evidence).scores

\* two regions hold the largest score of the map
TiedForMaximum ==
    \E i, j \in 1..Len(ScoreMap) :
        /\ i < j
        /\ ScoreMap[i].score = ScoreMap[j].score
        /\ \A k \in 1..Len(ScoreMap) : ScoreMap[k].score <= ScoreMap[i].score

\* C19: primaryRegion is a region with the largest accumulated score, the
\* first inserted one among those tied for it; signalBreakdown lists exactly
\* the regions that received a score, with their non-negative values in
\* non-increasing order, and its first key is primaryRegion.
C19_FirstMaximumOnTop ==
    Returned =>
        LET scores == ScoreMap
            breakdown == result.signalBreakdown
        IN /\ Len(scores) = 0 => result.primaryRegion = Null /\ breakdown = <<>>
           /\ Len(scores) > 0 =>
                 /\ IsVal(result.primaryRegion)
                 /\ \E i \in 1..Len(scores) :
                       /\ scores[i].region = result.primaryRegion.v
                       /\ \A k \in 1..Len(scores) : scores[k].score <= scores[i].score
                       /\ \A k \in 1..(i - 1) : scores[k].score < scores[i].score
                 /\ breakdown[1].region = result.primaryRegion.v
           /\ Len(breakdown) = Len(scores)
           /\ \A i \in 1..Len(breakdown) :
                 /\ breakdown[i].score >= 0
                 /\ \E k \in 1..Len(scores) : scores[k] = breakdown[i]
                 /\ \A j \in 1..Len(breakdown) :
                       /\ i < j => breakdown[i].score >= breakdown[j].score
                       /\ i # j => breakdown[i].region # breakdown[j].region

\* two regions tie for the largest score and the earlier source's region wins
C19_Witness ==
    /\ Returned
    /\ TiedForMaximum
    /\ Len(result.signalBreakdown) >= 2
    /\ result.signalBreakdown[1].score = result.signalBreakdown[2].score
    /\ result.primaryRegion = Val(ScoreMap[1].region)
    /\ result.signalBreakdown[1].region = ScoreMap[1].region

\* the html lang attribute and the detector's results, absent sections read as empty
HtmlLang == Get(Section(evidence.htmlSignals, EmptyHtml).lang, Null)
DetectionResults == Get(Section(evidence.languageDetection, EmptyLangDet).results, Null)

\* the language an html lang tag stands for: the lower-cased tag when it has a
\* region subtag, else its bare code
TagLanguage(tag) ==
    LET lowered == Strip(Lower(tag))
        parts == Split(lowered, {"-", "_"})
    IN IF Len(parts) >= 2 THEN lowered ELSE parts[1]

\* the language of the bare-code table that maps to the region, Null without one
TableLanguage(region) ==
    IF \E i \in 1..Len(LANG_TO_REGION) : TablePair(LANG_TO_REGION[i][1], region)
    THEN LET first == CHOOSE i \in 1..Len(LANG_TO_REGION) :
                         /\ LANG_TO_REGION[i][2] = region
                         /\ \A j \in 1..(i - 1) : LANG_TO_REGION[j][2] # region
         IN Val(LANG_TO_REGION[first][1])
    ELSE Null

\* the language found from the region alone
RegionLanguage ==
    IF IsVal(result.primaryRegion) THEN TableLanguage(result.primaryRegion.v) ELSE Null

\* C20 as stated: a present html lang determines primaryLanguage; otherwise
\* the detector's top language does whenever results exist, at any
\* confidence; otherwise the table language of the primaryRegion; otherwise
\* primaryLanguage is null.
C20_LanguagePrecedence ==
    Returned =>
        result.primaryLanguage =
            IF Truthy(HtmlLang) THEN Val(TagLanguage(HtmlLang.v))
            ELSE IF Truthy(DetectionResults) THEN DetectionResults.v[1].lang
            ELSE RegionLanguage

\* C20 as amended: the precedence runs over non-empty values: a present html
\* lang with a non-empty language determines primaryLanguage; otherwise the
\* detector's top language does whenever results exist and it is non-empty,
\* at any confidence; otherwise, if a primaryRegion was found, the table
\* language of that region; otherwise primaryLanguage is null or empty.
C20_FirstNonEmptyLanguage ==
    Returned =>
        LET declared == IF Truthy(HtmlLang) THEN Val(TagLanguage(HtmlLang.v)) ELSE Null
            detected == IF Truthy(DetectionResults) THEN DetectionResults.v[1].lang ELSE Null
        IN IF Truthy(declared) THEN result.primaryLanguage = declared
           ELSE IF Truthy(detected) THEN result.primaryLanguage = detected
           ELSE IF IsVal(RegionLanguage) THEN result.primaryLanguage = RegionLanguage
           ELSE result.primaryLanguage \in {Null, Val("")}

\* a regional html lang decides against a confident detector and another region
C20_Witness ==
    /\ Returned
    /\ HtmlLang = Val("EN-us")
    /\ Truthy(DetectionResults)
    /\ DetectionResults.v[1].lang = Val("de")
    /\ result.primaryRegion = Val("JP")
    /\ result.primaryLanguage = Val("en-us")

----------------------------------------------------------------------------
(* properties of the per-match sources and of the two detector cutoffs *)

\* the list without the repetitions of entries already in it
Distinct(list) ==
    SelectIdx(list, [i \in 1..Len(list) |-> \A j \in 1..(i - 1) : list[j] # list[i]], 1)

\* currencyCodes and phoneFormats are lists
HasMatchLists(ev) ==
    /\ IsVal(ev.contentSignals)
    /\ IsVal(ev.contentSignals.v.currencyCodes)
    /\ IsVal(ev.contentSignals.v.phoneFormats)

\* the evidence with every repeated currency code and phone country left out
WithDistinctMatches(ev) ==
    [ev EXCEPT !.contentSignals =
        Val([@.v EXCEPT !.currencyCodes = Val(Distinct(@.v)),
                        !.phoneFormats = Val(Distinct(@.v))])]

\* C21: currency codes and phone countries score once per distinct entry:
\* repeating a code or country already in currencyCodes / phoneFormats leaves
\* signalBreakdown and regionConfidence as they are without the repetition.
C21_ScoredPerUniqueMatch ==
    (Returned /\ HasMatchLists(evidence)) =>
        LET once == compute_result(WithDistinctMatches(evidence))
        IN /\ result.signalBreakdown = once.signalBreakdown
           /\ result.regionConfidence = once.regionConfidence

\* the warnings of the report that set the detected language against the declared one
DetectedVsDeclared ==
    {i \in 1..Len(report.recommendations) :
        /\ report.recommendations[i].severity = "warning"
        /\ report.recommendations[i].category = "locale-consistency"
        /\ Contains(report.recommendations[i].issue, "does not match detected content language")}

\* the top detection result names a language of the table other than the base
\* language of the declared html lang
DetectionDisagrees(ev) ==
    /\ HasTopResult(ev)
    /\ IsVal(ev.htmlSignals)
    /\ Truthy(ev.htmlSignals.v.lang)
    /\ LangInTable(ev.languageDetection.v.results.v[1].lang.v)
    /\ ev.languageDetection.v.results.v[1].lang.v # BaseLang(Lower(ev.htmlSignals.v.lang.v))

\* what the detection added to the score of a region
DetectionGain(region) ==
    RegionScore(result.signalBreakdown, region)
    - RegionScore(compute_result(WithoutDetection(evidence)).signalBreakdown, region)

\* C22: for a top detection result of confidence c whose language maps to a
\* region and disagrees with the declared html lang: c <= 0.5 adds no score
\* and no detected-vs-declared warning; 0.5 < c <= 0.7 adds 0.6 x c to the
\* region and still no warning; c > 0.7 adds 0.6 x c and exactly one warning.
C22_TwoCutoffs ==
    (Audited /\ DetectionDisagrees(evidence)) =>
        LET top == evidence.languageDetection.v.results.v[1]
            c == top.confidence.v
            gain == DetectionGain(LangRegion(top.lang.v))
            warnings == Cardinality(DetectedVsDeclared)
        IN /\ c <= 50 => gain = 0 /\ warnings = 0
           /\ (50 < c /\ c <= 70) => gain = 6 * c /\ warnings = 0
           /\ c > 70 => gain = 6 * c /\ warnings = 1

\* a disagreeing detection between the two cutoffs: scored, not warned about
C22_Witness ==
    /\ Audited
    /\ DetectionDisagrees(evidence)
    /\ evidence.htmlSignals.v.lang = Val("ja")
    /\ evidence.languageDetection = Detected("de", 70)
    /\ DetectionGain("DE") = 420
    /\ DetectedVsDeclared = {}

\* the hosting-alignment recommendations of one severity
HostingRecs(severity) ==
    {i \in 1..Len(report.recommendations) :
        /\ report.recommendations[i].category = "hosting-alignment"
        /\ report.recommendations[i].severity = severity}

\* the IP country of the evidence, Null when the section or the code is missing
IpCountry == Get(Section(evidence.ipGeolocation, EmptyIpGeo).countryCode, Null)

\* ISP and organisation of the IP name one of the CDNs the audit recognizes
RecognizedCdn ==
    LET ip_geo == Section(evidence.ipGeolocation, EmptyIpGeo)
    IN AnyCdn(Lower(Get(ip_geo.isp, Val("")).v \o " " \o Get(ip_geo.org, Val("")).v),
              REC_CDNS)

\* C23: a hosting-alignment warning is emitted exactly when the IP country and
\* primaryRegion are both present, differ, and the ISP/org is no recognized
\* CDN; a hosting-alignment info exactly when both are present and the
\* ISP/org is a recognized CDN; never both, and neither when one is missing.
C23_HostingAlignment ==
    Audited =>
        LET both == Truthy(IpCountry) /\ Truthy(result.primaryRegion)
            warned == Cardinality(HostingRecs("warning"))
            informed == Cardinality(HostingRecs("info"))
        IN /\ warned = IF both /\ IpCountry # result.primaryRegion /\ ~RecognizedCdn
                       THEN 1 ELSE 0
           /\ informed = IF both /\ RecognizedCdn THEN 1 ELSE 0
           /\ warned + informed <= 1
           /\ HostingRecs("critical") = {}

\* a server abroad behind a host that only the audit counts as a CDN
C23_Witness ==
    /\ Audited
    /\ IpCountry = Val("US")
    /\ result.primaryRegion = Val("JP")
    /\ evidence.ipGeolocation.v.isp = Val("Amazon.com")
    /\ RecognizedCdn
    /\ Cardinality(HostingRecs("info")) = 1
    /\ HostingRecs("warning") = {}

\* the market-coverage recommendations of severity info
CoverageInfos ==
    {i \in 1..Len(report.recommendations) :
        /\ report.recommendations[i].category = "market-coverage"
        /\ report.recommendations[i].severity = "info"}

\* the hreflang tags other than x-default, by position
MarketTags(tags) == {i \in 1..Len(tags) : Lower(tags[i]) # "x-default"}

\* the major-market languages that no tag's base language covers
UncoveredMajors(tags) ==
    {m \in Elems(MAJOR_MARKETS) :
        \A i \in MarketTags(tags) : BaseLang(Lower(tags[i])) # m}

\* C24: a market-coverage info is emitted exactly when at least 2 hreflang
\* tags other than x-default exist and between 1 and 7 of the ten major-market
\* languages are not covered by the tags' base languages; it is the only
\* market-coverage recommendation, and never emitted with fewer than 2 such tags.
C24_MarketCoverage ==
    Audited =>
        LET tags == TagsOf(evidence)
            missing == Cardinality(UncoveredMajors(tags))
        IN /\ Cardinality(CoverageInfos) =
                 IF Cardinality(MarketTags(tags)) >= 2 /\ missing >= 1 /\ missing <= 7
                 THEN 1 ELSE 0
           /\ \A i \in 1..Len(report.recommendations) :
                 report.recommendations[i].category = "market-coverage" => i \in CoverageInfos
           /\ Cardinality(MarketTags(tags)) < 2 => CoverageInfos = {}

\* three covered majors leave exactly seven uncovered, and the info is emitted
C24_Witness ==
    /\ Audited
    /\ TagsOf(evidence) = <<"en", "ja", "de", "x-default">>
    /\ Cardinality(UncoveredMajors(TagsOf(evidence))) = 7
    /\ Cardinality(CoverageInfos) = 1

\* the regionConfidence values of all pages with a result, summed
RECURSIVE SummedConfidence(_)
SummedConfidence(i) ==
    IF i > Len(page_results) THEN 0
    ELSE (IF IsVal(page_results[i].result)
          THEN page_results[i].result.v.regionConfidence ELSE 0)
         + SummedConfidence(i + 1)

\* the analyzed pages whose primaryLanguage is lang
PagesInLanguage(lang) ==
    {i \in AnalyzedPages : page_results[i].result.v.primaryLanguage = lang}

\* the non-empty primaryLanguage values of the analyzed pages
PageLanguages ==
    {page_results[i].result.v.primaryLanguage : i \in AnalyzedPages} \ {Null, Val("")}

\* C25: the site primaryRegion is a region with the largest score summed over
\* the pages' signalBreakdowns; the site primaryLanguage is a page
\* primaryLanguage found on the most pages, whatever the scores; the site
\* regionConfidence is the mean of the pages' regionConfidence values rounded
\* to 2 decimals, and lies in [0, 1].
C25_SiteAggregate ==
    Aggregated =>
        LET site == site_result.v
            pages == Cardinality(AnalyzedPages)
            gap == site.regionConfidence * pages - SummedConfidence(1)
        IN /\ IF ScoredRegions = {} THEN site.primaryRegion = Null
              ELSE /\ IsVal(site.primaryRegion)
                   /\ site.primaryRegion.v \in ScoredRegions
                   /\ \A r \in ScoredRegions :
                         SummedScore(r, 1) <= SummedScore(site.primaryRegion.v, 1)
           /\ IF PageLanguages = {} THEN site.primaryLanguage = Null
              ELSE /\ site.primaryLanguage \in PageLanguages
                   /\ \A lang \in PageLanguages :
                         Cardinality(PagesInLanguage(lang))
                            <= Cardinality(PagesInLanguage(site.primaryLanguage))
           /\ 2 * gap <= pages /\ 2 * gap >= 0 - pages
           /\ site.regionConfidence >= 0 /\ site.regionConfidence <= 100

\* the language of two weak pages wins by count while the region of one strong
\* page wins by score
C25_Witness ==
    /\ Aggregated
    /\ Len(page_results) = 3
    /\ site_result.v.primaryRegion = Val("US")
    /\ site_result.v.primaryLanguage = Val("ja")
    /\ Cardinality(PagesInLanguage(Val("ja"))) = 2
    /\ SummedConfidence(1) > 0
    /\ site_result.v.regionConfidence * 3 # SummedConfidence(1)

----------------------------------------------------------------------------
(* the two engines against each other *)

\* the weight that the IP geolocation source added to max_weight
IpWeight == IpAcc(evidence).max_weight - DetectAcc(evidence).max_weight

\* C26: for every isp/org of an IP with a country, compute_result applies the
\* reduced CDN weight 0.2 if and only if generate_recommendations treats the
\* ISP as a recognized CDN (hosting-alignment info instead of a warning).
C26_SameCdnClassification ==
    (Audited /\ Truthy(IpCountry)) =>
        (IpWeight = W_IP_CDN <=> HostingRecs("info") # {})

----------------------------------------------------------------------------
(* crawling.py: the breadth-first crawl of crawl_site *)

MaxDepth == 2         \* largest max_depth the crawl is started with
MaxCrawlPages == 3    \* largest max_pages the crawl is started with

Url(host, path, fragment) == [host |-> host, path |-> path, fragment |-> fragment]

\* path.rstrip('/')
RECURSIVE RStripSlash(_)
RStripSlash(path) ==
    IF Len(path) > 0 /\ CharAt(path, Len(path)) = "/"
    THEN RStripSlash(SubSeq(path, 1, Len(path) - 1)) ELSE path

\* _normalize_url: the fragment dropped, the path without trailing slashes
NormalizeUrl(url) ==
    [url EXCEPT !.fragment = "",
                !.path = IF RStripSlash(url.path) = "" THEN "/" ELSE RStripSlash(url.path)]

\* _get_domain: the netloc in lower case
GetDomain(url) == Lower(url.host)

\* the anchors of the homepage of a crawled site, in document order
HomeAnchors(site) ==
    IF site = "tree"
    THEN <<Url("shop.example", "/a/", ""), Url("shop.example", "/b", "top"),
           Url("other.example", "/", ""), Url("shop.example", "/login", "")>>
    ELSE <<Url("shop.example", "/a", ""), Url("Shop.Example", "/a", "")>>

\* the anchors of the page served for a URL of the crawled site
Hrefs(site, url) ==
    IF GetDomain(url) # "shop.example" THEN {}
    ELSE IF site = "tree" THEN
        CASE url.path = "/" -> Elems(HomeAnchors(site))
          [] url.path = "/a" -> {Url("shop.example", "/", ""), Url("shop.example", "/c", ""),
                                 Url("shop.example", "/b", "")}
          [] url.path = "/b" -> {Url("shop.example", "/c/", "")}
          [] url.path = "/c" -> {Url("shop.example", "/d", "")}
          [] url.path = "/login" -> {Url("shop.example", "/", "")}
          [] OTHER -> {}
    ELSE
        CASE url.path = "/" -> Elems(HomeAnchors(site))
          [] url.path = "/a" -> {Url("shop.example", "", "top"), Url("shop.example", "/a/", "x"),
                                 Url("shop.example", "/b", "")}
          [] OTHER -> {}

\* extract_links: the normalized anchors on the domain of the page's final URL
extract_links(hrefs, base_url) ==
    {NormalizeUrl(h) : h \in {x \in hrefs : Lower(x.host) = GetDomain(base_url)}}

\* list(links): the set in any order
Orderings(S) ==
    {order \in [1..Cardinality(S) -> S] :
        \A i, j \in 1..Cardinality(S) : order[i] = order[j] => i = j}

\* the loop over new_links: an unvisited link of the start domain is queued
RECURSIVE EnqueueLinks(_, _, _, _)
EnqueueLinks(c, new_links, i, depth) ==
    IF i > Len(new_links) THEN c
    ELSE LET link_normalized == NormalizeUrl(new_links[i]) IN
         EnqueueLinks(
            IF GetDomain(link_normalized) # c.start_domain THEN c
            ELSE IF link_normalized \notin c.visited
            THEN [c EXCEPT !.visited = @ \cup {link_normalized},
                           !.queue = Append(@, [url |-> link_normalized, depth |-> depth + 1])]
            ELSE c,
            new_links, i + 1, depth)

\* the state of crawl_site before its loop
CrawlStart(site, start_url, max_depth, max_pages) ==
    [site |-> site, start_url |-> start_url,
     max_depth |-> max_depth, max_pages |-> max_pages,
     start_domain |-> GetDomain(start_url),
     visited |-> {NormalizeUrl(start_url)},
     queue |-> <<[url |-> NormalizeUrl(start_url), depth |-> 0]>>,
     results |-> <<>>,
     requested |-> <<>>]

StartUrls == {Url("shop.example", "/", ""), Url("Shop.Example", "", "top")}

CrawlInit ==
    /\ crawl \in {CrawlStart(site, start_url, max_depth, max_pages) :
                    site \in {"tree", "loop"}, start_url \in StartUrls,
                    max_depth \in 0..MaxDepth, max_pages \in 0..MaxCrawlPages}
    /\ pc = "crawl"
    /\ evidence = EmptyEvidence
    /\ result = NoValue
    /\ report = NoValue
    /\ tally = NoValue
    /\ page_results = <<>>
    /\ site_result = NoValue
    /\ site_optimization = NoValue

\* the variant of CrawlContinues that stops only on an empty queue
CrawlContinues_without_page_limit == Len(crawl.queue) > 0

\* while queue and len(results) < max_pages
CrawlContinues == Len(crawl.queue) > 0 /\ Len(crawl.results) < crawl.max_pages

\* url, depth = queue.popleft(); fetch_html(url)
Popped ==
    [crawl EXCEPT !.queue = Tail(@), !.requested = Append(@, crawl.queue[1].url)]

\* one turn of the loop in which fetch_html returns no html
FetchFails ==
    /\ pc = "crawl"
    /\ CrawlContinues
    /\ crawl' = Popped
    /\ UNCHANGED <<pc, page_vars, tally, site_vars>>

\* one turn of the loop in which the page is fetched, directly or after a redirect
FetchPage ==
    /\ pc = "crawl"
    /\ CrawlContinues
    /\ LET url == crawl.queue[1].url
           depth == crawl.queue[1].depth
       IN \E final_url \in {url, Url("cdn.example", url.path, "")} :
             LET fetched == [Popped EXCEPT !.results =
                                Append(@, [url |-> url, depth |-> depth,
                                           final_url |-> final_url])]
             IN IF depth < crawl.max_depth /\ Len(fetched.results) < crawl.max_pages
                THEN \E new_links \in Orderings(extract_links(Hrefs(crawl.site, url), final_url)) :
                        crawl' = EnqueueLinks(fetched, new_links, 1, depth)
                ELSE crawl' = fetched
    /\ UNCHANGED <<pc, page_vars, tally, site_vars>>

\* return results
CrawlReturn ==
    /\ pc = "crawl"
    /\ ~CrawlContinues
    /\ pc' = "returned"
    /\ UNCHANGED <<crawl, page_vars, tally, site_vars>>

CrawlNext == FetchFails \/ FetchPage \/ CrawlReturn

\* the loop is sequential code: it keeps taking turns until it returns
CrawlSpec == CrawlInit /\ [][CrawlNext]_vars /\ WF_vars(CrawlNext)

----------------------------------------------------------------------------
(* crawling.py: crawl_site_smart and the selection of its pages *)

MaxIndices == 2       \* longest list of indices in an answer of the AI

\* items[:n] for n >= 0
Take(items, n) == SubSeq(items, 1, IF n < Len(items) THEN n ELSE Len(items))

\* the link dictionary of an anchor: its normalized URL and its path as written
LinkOf(anchor) == [url |-> NormalizeUrl(anchor), path |-> anchor.path]

\* extract_navigation_links: the anchors inside a navigation container, of any
\* domain and with repetitions; the "loop" site has no such container
extract_navigation_links(site) ==
    IF site = "tree"
    THEN [i \in 1..Len(HomeAnchors(site)) |-> LinkOf(HomeAnchors(site)[i])]
    ELSE <<>>

\* extract_links_with_metadata: every anchor on the domain of the page
extract_links_with_metadata(site, base_url) ==
    LET anchors == HomeAnchors(site)
        kept == SelectIdx(anchors,
                          [i \in 1..Len(anchors) |->
                              Lower(anchors[i].host) = GetDomain(base_url)], 1)
    IN [i \in 1..Len(kept) |-> LinkOf(kept[i])]

LOW_PRIORITY ==
    {"/privacy", "/terms", "/legal", "/cookies", "/sitemap", "/search",
     "/login", "/register", "/account", "/checkout", "/payment"}

\* the score of a link: the first pattern of the highest priority matches
\* every path that starts with "/", which leaves the two lower lists to paths
\* that start otherwise; the path of an http URL is empty or starts with "/"
HeuristicScore(path) ==
    LET p == Lower(path)
    IN (IF Len(p) > 0 /\ CharAt(p, 1) = "/" THEN 15 ELSE 0)
       - (IF \E w \in LOW_PRIORITY : Contains(p, w) THEN 5 ELSE 0)
       - Len(Split(p, {"/"}))

\* the variant of select_pages_heuristically that returns every link
select_pages_heuristically_all(links, max_pages) ==
    LET sorted == SortedBy(links, [i \in 1..Len(links) |-> 0 - HeuristicScore(links[i].path)])
    IN [i \in 1..Len(sorted) |-> sorted[i].url]

\* select_pages_heuristically: the max_pages best links, ties in list order
select_pages_heuristically(links, max_pages) ==
    LET sorted == SortedBy(links, [i \in 1..Len(links) |-> 0 - HeuristicScore(links[i].path)])
        best == Take(sorted, max_pages)
    IN [i \in 1..Len(best) |-> best[i].url]

\* what _call_ai_api and the parsing of its answer can give: an error
\* dictionary, text that is not JSON, JSON of another shape (an exception that
\* only the caller catches), or a list of indices
AiResponses ==
    {[kind |-> k, selected_indices |-> <<>>] : k \in {"error", "malformed", "raises"}}
    \cup {[kind |-> "indices", selected_indices |-> ix] : ix \in SeqsUpTo({-9, -1, 0, 1, 9}, MaxIndices)}

\* for idx in selected_indices: if idx < len(links): links[idx]
RECURSIVE PickIndices(_, _, _)
PickIndices(links, indices, i) ==
    IF i > Len(indices) THEN [raised |-> FALSE, urls |-> <<>>]
    ELSE LET idx == indices[i]
             rest == PickIndices(links, indices, i + 1)
         IN IF idx >= Len(links) THEN rest
            ELSE IF idx < 0 - Len(links) THEN [raised |-> TRUE, urls |-> <<>>]
            ELSE LET link == links[IF idx < 0 THEN Len(links) + idx + 1 ELSE idx + 1]
                 IN [rest EXCEPT !.urls = <<link.url>> \o @]

\* analyze_site_structure_with_ai; an IndexError met after some indices were
\* taken discards them, like every error the function catches
analyze_site_structure_with_ai(links, response, max_pages) ==
    IF Len(links) = 0 THEN [raised |-> FALSE, urls |-> <<>>]
    ELSE IF response.kind \in {"error", "malformed"}
    THEN [raised |-> FALSE, urls |-> select_pages_heuristically(links, max_pages)]
    ELSE IF response.kind = "raises" THEN [raised |-> TRUE, urls |-> <<>>]
    ELSE LET picked == PickIndices(links, response.selected_indices, 1)
             raises == \E i \in 1..Len(response.selected_indices) :
                          /\ response.selected_indices[i] < 0 - Len(links)
                          /\ \A j \in 1..(i - 1) : response.selected_indices[j] >= 0 - Len(links)
         IN IF raises
            THEN [raised |-> FALSE, urls |-> select_pages_heuristically(links, max_pages)]
            ELSE [raised |-> FALSE, urls |-> picked.urls]

\* the URLs crawl_site_smart goes on to fetch after the homepage
SelectedUrls(nav_links, use_ai, response, max_pages) ==
    LET first == [i \in 1..Len(Take(nav_links, max_pages - 1)) |-> nav_links[i].url]
        chosen == analyze_site_structure_with_ai(nav_links, response, max_pages - 1)
    IN IF use_ai /\ ~chosen.raised THEN chosen.urls ELSE first

\* discover_sitemap: the URLs of the sitemap, none when the site has no sitemap
Sitemaps ==
    {<<>>,
     <<Url("shop.example", "/a", ""), Url("shop.example", "/", ""), Url("shop.example", "/b", ""),
       Url("shop.example", "/c", ""), Url("shop.example", "/d", "")>>}

SmartInit ==
    /\ crawl \in {[site |-> site, start_url |-> start_url, max_pages |-> max_pages,
                   use_ai |-> use_ai, sitemap |-> sitemap,
                   urls |-> <<>>, results |-> <<>>, requested |-> <<>>] :
                    site \in {"tree", "loop"}, start_url \in StartUrls,
                    max_pages \in 1..MaxCrawlPages, use_ai \in BOOLEAN,
                    sitemap \in Sitemaps}
    /\ pc = "smart"
    /\ evidence = EmptyEvidence
    /\ result = NoValue
    /\ report = NoValue
    /\ tally = NoValue
    /\ page_results = <<>>
    /\ site_result = NoValue
    /\ site_optimization = NoValue

CrawledPage(url, depth) == [url |-> url, depth |-> depth, final_url |-> url]

\* a sitemap was found: its first max_pages URLs are kept and the homepage is
\* fetched, with or without success
SitemapHomepage ==
    /\ pc = "smart"
    /\ Len(crawl.sitemap) > 0
    /\ LET home == NormalizeUrl(crawl.start_url)
       IN \E ok \in BOOLEAN :
             crawl' = [crawl EXCEPT !.urls = Take(crawl.sitemap, crawl.max_pages),
                                    !.requested = <<home>>,
                                    !.results = IF ok THEN <<CrawledPage(home, 0)>> ELSE <<>>]
    /\ pc' = "sitemap"
    /\ UNCHANGED <<page_vars, tally, site_vars>>

\* one turn of the loop over sitemap_urls
SitemapPage ==
    /\ pc = "sitemap"
    /\ Len(crawl.urls) > 0
    /\ LET url == crawl.urls[1]
       IN IF url = NormalizeUrl(crawl.start_url) \/ url = crawl.start_url
          THEN crawl' = [crawl EXCEPT !.urls = Tail(@)] /\ pc' = pc
          ELSE IF Len(crawl.results) >= crawl.max_pages
          THEN crawl' = crawl /\ pc' = "returned"
          ELSE /\ \E ok \in BOOLEAN :
                     crawl' = [crawl EXCEPT !.urls = Tail(@),
                                            !.requested = Append(@, url),
                                            !.results = IF ok THEN Append(@, CrawledPage(url, 1)) ELSE @]
               /\ pc' = pc
    /\ UNCHANGED <<page_vars, tally, site_vars>>

\* no sitemap and no homepage: crawl_site(start_url, max_depth=1, max_pages)
HomepageFails ==
    /\ pc = "smart"
    /\ Len(crawl.sitemap) = 0
    /\ crawl' = CrawlStart(crawl.site, crawl.start_url, 1, crawl.max_pages)
    /\ pc' = "crawl"
    /\ UNCHANGED <<page_vars, tally, site_vars>>

\* no sitemap: the homepage is fetched and the pages to fetch are selected
\* from its navigation links, or from all its links when it has none
SelectPages ==
    /\ pc = "smart"
    /\ Len(crawl.sitemap) = 0
    /\ LET home == NormalizeUrl(crawl.start_url)
           nav_links == IF Len(extract_navigation_links(crawl.site)) > 0
                        THEN extract_navigation_links(crawl.site)
                        ELSE extract_links_with_metadata(crawl.site, home)
       IN \E response \in AiResponses :
             crawl' = [crawl EXCEPT !.urls = SelectedUrls(nav_links, crawl.use_ai, response,
                                                          crawl.max_pages),
                                    !.requested = <<home>>,
                                    !.results = <<CrawledPage(home, 0)>>]
    /\ pc' = "selected"
    /\ UNCHANGED <<page_vars, tally, site_vars>>

\* one turn of the loop over selected_urls
SelectedPage ==
    /\ pc = "selected"
    /\ Len(crawl.urls) > 0
    /\ \E ok \in BOOLEAN :
          crawl' = [crawl EXCEPT !.urls = Tail(@),
                                 !.requested = Append(@, crawl.urls[1]),
                                 !.results = IF ok THEN Append(@, CrawledPage(crawl.urls[1], 1)) ELSE @]
    /\ UNCHANGED <<pc, page_vars, tally, site_vars>>

\* return {'results': results, 'site_map': site_map}
SmartReturn ==
    /\ pc \in {"sitemap", "selected"}
    /\ Len(crawl.urls) = 0
    /\ pc' = "returned"
    /\ UNCHANGED <<crawl, page_vars, tally, site_vars>>

SmartNext ==
    \/ SitemapHomepage \/ SitemapPage \/ HomepageFails \/ SelectPages
    \/ SelectedPage \/ SmartReturn
    \/ FetchFails \/ FetchPage \/ CrawlReturn

SmartSpec == SmartInit /\ [][SmartNext]_vars

----------------------------------------------------------------------------
(* properties of the crawlers *)

Crawling == pc \in {"crawl", "returned"}

FetchFailed == Len(crawl.requested) > Len(crawl.results)

CrawlWithinLimits ==
    Crawling =>
        /\ Len(crawl.results) <= crawl.max_pages
        /\ \A i \in 1..Len(crawl.results) :
              /\ crawl.results[i].depth <= crawl.max_depth
              /\ GetDomain(crawl.results[i].url) = GetDomain(crawl.start_url)
        /\ \A i, j \in 1..Len(crawl.requested) :
              crawl.requested[i] = crawl.requested[j] => i = j
        /\ \A i \in 1..Len(crawl.requested) :
              crawl.requested[i] = NormalizeUrl(crawl.requested[i])

\* C27: for limits that are natural numbers, every link graph, every order of
\* the extracted links and every pattern of fetch failures and redirects,
\* crawl_site returns, with at most max_pages pages, each at depth <= max_depth
\* and on the start URL's domain, and it requests no normalized URL twice.
C27_CrawlRespectsLimits == [](CrawlWithinLimits) /\ <>(pc = "returned")

\* a crawl cut off by max_pages with links still queued, after a failed fetch,
\* that returned a page at the depth limit
C27_Witness ==
    /\ pc = "returned"
    /\ crawl.max_pages = MaxCrawlPages
    /\ Len(crawl.results) = crawl.max_pages
    /\ Len(crawl.queue) > 0
    /\ FetchFailed
    /\ \E i \in 1..Len(crawl.results) :
          crawl.results[i].depth = crawl.max_depth /\ crawl.max_depth > 0

\* C28: crawl_site_smart returns at most max_pages pages on every path, for
\* every max_pages >= 1: with a sitemap, with the first navigation links, with
\* the links an AI selects whatever indices it answers, and through crawl_site
\* when the homepage cannot be fetched.
C28_SmartWithinMaxPages ==
    pc = "returned" => Len(crawl.results) <= crawl.max_pages

----------------------------------------------------------------------------
(* properties of the site report against the reports of its pages *)

\* the pages that have a report
ReportedPages == {i \in 1..Len(page_results) : IsVal(page_results[i].optimization)}

PageSummary(i) == page_results[i].optimization.v.summary

\* C29: the site report counts at least as many critical, warning and info
\* recommendations as every page report does, so its score is at most the
\* lowest page score and its grade no better than the worst page grade.
C29_SiteNoBetterThanPages ==
    pc = "done" =>
        \A i \in ReportedPages :
            /\ site_optimization.summary.critical >= PageSummary(i).critical
            /\ site_optimization.summary.warnings >= PageSummary(i).warnings
            /\ site_optimization.summary.info >= PageSummary(i).info
            /\ site_optimization.summary.score <= PageSummary(i).score
            /\ GradeLevel(site_optimization.summary.grade) <= GradeLevel(PageSummary(i).grade)

SiteRegion == site_result.v.primaryRegion

ConsistencyInRange ==
    /\ site_result.v.regionConsistency >= 0
    /\ site_result.v.regionConsistency <= 100
    /\ site_result.v.pagesAnalyzed = Cardinality(AnalyzedPages)

\* C30 as stated: a non-null site primaryRegion is the primaryRegion of at
\* least one analyzed page, so regionConsistency > 0; regionConsistency lies
\* in [0,1] and pagesAnalyzed is the number of pages that have a result.
C30_SiteRegionIsAPageRegion ==
    Aggregated =>
        /\ IsVal(SiteRegion) => AgreeingPages # {} /\ site_result.v.regionConsistency > 0
        /\ ConsistencyInRange

\* C30 amended: a non-null site primaryRegion has a score in the
\* signalBreakdown of at least one analyzed page, and regionConsistency is 0
\* when it is the primaryRegion of none of them; regionConsistency lies in
\* [0,1] and pagesAnalyzed is the number of pages that have a result.
C30_SiteRegionIsScored ==
    Aggregated =>
        /\ IsVal(SiteRegion) =>
              /\ SiteRegion.v \in ScoredRegions
              /\ AgreeingPages = {} => site_result.v.regionConsistency = 0
        /\ ConsistencyInRange

\* a site whose region is the runner-up of two pages and the first of none,
\* aggregated together with a page that has no result
C30_Witness ==
    /\ Aggregated
    /\ SiteRegion = Val("US")
    /\ AgreeingPages = {}
    /\ site_result.v.regionConsistency = 0
    /\ Cardinality(AnalyzedPages) = 2
    /\ Len(page_results) = 3

=============================================================================
